---------------------------- MODULE Spec2Model ----------------------------
(***************************************************************************)
(* A model of the core of the MFA engine (include/mfa): span location      *)
(* (MFA_Data::FindSpan), the separable encoder (Encoder::Encode,           *)
(* CtrlCurve, RHS, MFA_Data::Rationalize), the adaptive loop               *)
(* (Encoder::AdaptiveEncode, NewKnots_full) and the point decoders         *)
(* (Decoder::VolPt, VolPt_tmesh, CurvePt).                                 *)
(*                                                                         *)
(* Real values are only compared, added and multiplied by the parts        *)
(* modelled here, so knots and parameters are integers on the grid         *)
(* 0..KnotMax (standing for [0,1]); basis values and weights are naturals. *)
(* Each component has its own variables and its own specification; the     *)
(* variables of the other components stay at their initial values.         *)
(***************************************************************************)
EXTENDS Integers, Sequences, FiniteSets, TLC

\* ------------------------------------------------------------------ bounds
MaxP == 2
MaxCtrl == 4
KnotMax == 4
MaxDim == 2
MaxDom == 4
MaxRounds == 3
MaxTensors == 4
EncMaxDim == 3
EncMaxDom == 3
EncMaxCurves == 6
DecMaxPts == 4
RatRows == 2
RatCols == 2
KiMaxPts == 4
KiMaxIns == 2
KiMaxLevel == 1
UkMaxSpans == 3
WsMaxCurves == 2
NkMaxKnots == 7
NkMaxIns == 2
TfMaxLevel == 2
FvMaxCtrl == 3
WdMaxPts == 4

VARIABLES
    fs_pc,      \* position in FindSpan: "call", "loop", "done"
    fs_p,       \* p(cur_dim)
    fs_nctrl,   \* nctrl_pts
    fs_knots,   \* tmesh.all_knots[cur_dim]
    fs_u,       \* parameter value
    fs_low,     \* binary search: low
    fs_high,    \* binary search: high
    fs_mid,     \* binary search: mid
    fs_ret,     \* returned span
    \* ---- Encoder::AdaptiveEncode / NewKnots_full
    ae_pc,          \* "head" (top of the for loop), "check" (after NewKnots_full), "done"
    ae_p,           \* mfa.p, per dimension
    ae_ndom,        \* mfa.ndom_pts, per dimension
    ae_nknots,      \* mfa.tmesh.all_knots[k].size(), per dimension
    ae_ntensors,    \* mfa.tmesh.tensor_prods.size()
    ae_t_rows,      \* tensor_prods[0].ctrl_pts.rows() (= weights.size())
    ae_t_src,       \* what tensor_prods[0].ctrl_pts / weights hold: "unset", "fixed", "adaptive"
    ae_max_rounds,  \* max_rounds
    ae_iter,        \* iter
    ae_retval,      \* retval
    ae_need,        \* per dimension, the control-point count at which the fit meets err_limit
    ae_rounds,      \* calls of NewKnots_full so far
    ae_ins,         \* dimensions that received a knot in the last round
    ae_loc_nctrl,   \* NewKnots_full: local nctrl_pts of the last round
    ae_loc_rows,    \* NewKnots_full: rows of the local ctrl_pts / weights of the last round
    \* ---- Encoder::Encode (as called by MFA::FixedEncode)
    en_pc,          \* "quants", "curves", "done", "exit" (the process has exited)
    en_p,           \* mfa.p, per dimension
    en_ndom,        \* mfa.ndom_pts, per dimension
    en_nctrl,       \* nctrl_pts, per dimension
    en_k,           \* current dimension k (0-based, as in the source)
    en_cs,          \* cs, stride of the points of a curve in the current dimension
    en_ntemp,       \* ntemp_ctrl, per dimension
    en_todo,        \* curves j of the current dimension that have not run yet
    en_ctrl,        \* per row of the output ctrl_pts, the number of writes to it
    en_w,           \* per entry of the output weights, the number of writes to it
    en_oob,         \* some row index was outside the buffer it addressed
    en_warn,        \* Quants printed its warning
    en_acc,     \* accesses so far: <<dimension, curve, "r" or "w", object, row>>
    en_behind,  \* the object that lies in memory behind the buffers of this run
    \* ---- a model's life: construction, FixedEncode, Decoder, point decoding
    dc_proc,        \* the process: "running", or "exit0" / "exit1" after exit(0) / exit(1)
    dc_p,           \* mfa_data.p, per dimension
    dc_nctrl,       \* tensor_prods[0].nctrl_pts, per dimension
    dc_model,       \* "constructed" (ctrl_pts empty), "encoded" or "loaded"
    dc_weights,     \* tensor_prods[0].weights
    dc_decoder,     \* a Decoder has been constructed
    dc_op,          \* the last operation called
    dc_viol,        \* the precondition the last call violated, or "none"
    dc_outcome,     \* what the last call gave its caller: "ok", "failure", or "none" (no return)
    dc_denom,       \* the rational denominator the last decode accumulated (-1: none)
    dc_divisor,     \* the value the last decode divided its output by (-1: no division)
    dc_diag,        \* the last decode wrote a warning
    \* ---- the rational denominators of one CtrlCurve call
    rt_pc,          \* "call", "done"
    rt_unclamped,   \* built with UNCLAMPED_KNOTS
    rt_k,           \* current dimension k
    rt_N,           \* N, basis function values: rows = input points, columns = control points
    rt_weights,     \* temp_weights of the curve
    rt_rhs_div,     \* per input point, the denominator RHS divides by
    rt_rat_div,     \* per input point, the denominator Rationalize divides by
    \* ---- MFA_Data::NewKnotInsertion on a tensor (NewVolKnotIns, NewCurveKnotIns)
    ki_pc,          \* "ready", "curves", "exit0" (process exited), "hang" (FindSpan never returns)
    ki_p,           \* p, per dimension
    ki_tlevel,      \* tensor.level
    ki_knots,       \* tmesh.all_knots, per dimension
    ki_levels,      \* tmesh.all_knot_levels, per dimension
    ki_nctrl,       \* tensor.nctrl_pts, per dimension
    ki_ctrl,        \* tensor.ctrl_pts (range coordinate), one fraction per control point
    ki_w,           \* tensor.weights, one fraction per control point
    ki_knot_maxs,   \* tensor.knot_maxs, per dimension
    ki_nins,        \* insertions completed so far
    ki_param,       \* param, the knot value to insert in each dimension
    ki_k,           \* NewVolKnotIns: current dimension k (0-based)
    ki_todo,        \* curves j of the current dimension that have not run yet
    ki_new_nctrl,   \* new_nctrl_pts
    ki_old_cs,      \* old_cs
    ki_new_cs,      \* new_cs
    ki_buf0,        \* new_ctrl_pts / new_weights: one <<point, weight>> per row
    ki_buf1,        \* new_ctrl_pts1 / new_weights1
    ki_new_knots,   \* new_knots, per dimension
    ki_new_levels,  \* new_knot_levels, per dimension
    ki_wrote,       \* <<j, object>>: curve j of the current dimension wrote the shared object
    uk_pc,          \* knot initialisation: "external", "internal", "done"
    uk_curve,       \* TRUE: Knots (knots from the parameters), FALSE: uniform_knots_impl_structured
    uk_p,           \* p, per dimension
    uk_nctrl,       \* tmesh.tensor_prods[0].nctrl_pts, per dimension
    uk_params,      \* params, per dimension the parameters of the input samples
    uk_knots,       \* tmesh.all_knots, per dimension, as fractions
    uk_idxs,        \* tmesh.all_knot_param_idxs, per dimension
    uk_k,           \* current dimension k (0-based)
    uk_j,           \* loop variable j of the internal knots
    uk_param_idx,   \* param_idx
    ws_pc,          \* weight solve: "call", "curves", "done"
    ws_entry,       \* entry point of the caller: "FixedEncode" or "AdaptiveEncode"
    ws_caller,      \* the weighted flag the caller passes to the entry point
    ws_weighted,    \* the weighted parameter of Encode
    ws_d,           \* mfa.dom_dim
    ws_ncurves,     \* number of curves of every dimension
    ws_k,           \* current dimension k (0-based)
    ws_j,           \* next curve of dimension k
    ws_invoked,     \* <<k, j>>: Weights was invoked for curve j of dimension k
    ws_out,         \* per curve of the last dimension: its part of the output weights
    ec_pc,          \* ErrorCurve: "loop", "done"
    ec_p,           \* mfa.p[k]
    ec_knots,       \* mfa.tmesh.all_knots[k]
    ec_params,      \* mfa.params[k]
    ec_err,         \* per input point: max_err > err_limit
    ec_i,           \* loop variable i over the input points of the curve
    ec_span,        \* span
    ec_err_spans,   \* err_spans
    ec_nerr,        \* nerr
    ec_examined,    \* indices j at which mfa.params[k][j] was read by the two scans
    nk_pc,          \* append loop of NewKnots_full: "knots", "append", "done"
    nk_p,           \* mfa.p, per dimension
    nk_nknots,      \* mfa.tmesh.all_knots[j].size(), per dimension
    nk_ins,         \* inserted_knot_idxs, per dimension
    nk_tensors,     \* knot_mins and knot_maxs of the tensors present before the appends
    nk_i,           \* loop variable i over the tensors (0-based)
    nk_j,           \* loop variable j over the dimensions (0-based)
    nk_k,           \* loop variable k over the inserted knots of dimension j (0-based)
    nk_knot_mins,   \* the local vector knot_mins
    nk_knot_maxs,   \* the local vector knot_maxs
    nk_min_idx,     \* min_idx, NK_Unassigned before its first assignment
    nk_max_idx,     \* max_idx, NK_Unassigned before its first assignment
    nk_subs,        \* <<j, s>>: t.knot_mins[s] and t.knot_maxs[s] were read for dimension j
    nk_unassigned,  \* min_idx or max_idx was read before being assigned
    nk_appended,    \* the calls of append_tensor: parent tensor, knot_mins, knot_maxs
    tf_pc,          \* FindSpan of a tensor: "call", "search", "walk", "done"
    tf_p,           \* p(cur_dim)
    tf_knots,       \* tmesh.all_knots[cur_dim]
    tf_levels,      \* tmesh.all_knot_levels[cur_dim]
    tf_tensor,      \* the tensor: knot_mins, knot_maxs, nctrl_pts of cur_dim, and level
    tf_u,           \* parameter value
    tf_low,         \* binary search: low
    tf_high,        \* binary search: high
    tf_mid,         \* binary search: mid
    tf_span,        \* mid at the end of the binary search
    tf_ret,         \* returned value, TF_NoRet before the return
    fv_pc,          \* fast decoding: "call", "first", "kmode", "return", "done", "thrown"
    fv_op,          \* "FastVolPt" or "FastGrad"
    fv_p,           \* mfa_data.p, per dimension
    fv_nctrl,       \* tensor.nctrl_pts, per dimension
    fv_ctrl,        \* tensor.ctrl_pts, scalar control points
    fv_param,       \* param, per dimension
    fv_N,           \* di.N, per dimension the p + 1 basis values
    fv_span,        \* di.span, per dimension
    fv_t,           \* di.t (in FastGrad di.td[dom_dim]), per dimension the intermediate sums
    fv_k,           \* loop variable k of the k-mode products
    fv_acc,         \* <<array, k, index>>: element index of di.t[k] or di.td[d][k] was accessed
    fv_out,         \* out_pt(0)
    wd_pc,          \* decoding with two sets of weights: "call", "done"
    wd_path,        \* the decoder that ran
    wd_p,           \* mfa_data.p, per dimension
    wd_ctrl,        \* tensor.ctrl_pts, one row <<geometry coordinate, range coordinate>> per point
    wd_w,           \* two vectors of tensor.weights: all 1, and any positive weights
    wd_param,       \* param, per dimension
    wd_out,         \* out_pt for each of the two vectors of weights
    ci_pc,          \* curve knot insertion: "save", "insert", "load", "done"
    ci_exist,       \* TRUE: ExistCurveKnotIns, FALSE: NewCurveKnotIns
    ci_p,           \* p(cur_dim)
    ci_knots,       \* knots of the curve before the insertion (old_knots)
    ci_u,           \* u, the new knot
    ci_span,        \* span, the span of u before the insertion
    ci_old,         \* old_ctrl_pts and old_weights, rows <<point, weight>>
    ci_temp,        \* temp_ctrl_pts and temp_weights, rows <<point, weight>>
    ci_new,         \* new_ctrl_pts and new_weights, rows <<point, weight>>
    ci_i            \* loop variable i of the loop that inserts the new control point

varsFS == <<fs_pc, fs_p, fs_nctrl, fs_knots, fs_u, fs_low, fs_high, fs_mid, fs_ret>>

varsAE == <<ae_pc, ae_p, ae_ndom, ae_nknots, ae_ntensors, ae_t_rows, ae_t_src,
            ae_max_rounds, ae_iter, ae_retval, ae_need, ae_rounds, ae_ins,
            ae_loc_nctrl, ae_loc_rows>>

varsEN == <<en_pc, en_p, en_ndom, en_nctrl, en_k, en_cs, en_ntemp, en_todo,
            en_ctrl, en_w, en_oob, en_warn, en_acc,
            en_behind>>

varsDC == <<dc_proc, dc_p, dc_nctrl, dc_model, dc_weights, dc_decoder, dc_op,
            dc_viol, dc_outcome, dc_denom, dc_divisor, dc_diag>>

varsRT == <<rt_pc, rt_unclamped, rt_k, rt_N, rt_weights, rt_rhs_div, rt_rat_div>>

varsKI == <<ki_pc, ki_p, ki_tlevel, ki_knots, ki_levels, ki_nctrl, ki_ctrl, ki_w,
            ki_knot_maxs, ki_nins, ki_param, ki_k, ki_todo, ki_new_nctrl, ki_old_cs,
            ki_new_cs, ki_buf0, ki_buf1, ki_new_knots, ki_new_levels, ki_wrote>>

varsUK == <<uk_pc, uk_curve, uk_p, uk_nctrl, uk_params, uk_knots, uk_idxs, uk_k, uk_j,
            uk_param_idx>>

varsWS == <<ws_pc, ws_entry, ws_caller, ws_weighted, ws_d, ws_ncurves, ws_k, ws_j,
            ws_invoked, ws_out>>

varsEC == <<ec_pc, ec_p, ec_knots, ec_params, ec_err, ec_i, ec_span, ec_err_spans,
            ec_nerr, ec_examined>>

varsNK == <<nk_pc, nk_p, nk_nknots, nk_ins, nk_tensors, nk_i, nk_j, nk_k, nk_knot_mins,
            nk_knot_maxs, nk_min_idx, nk_max_idx, nk_subs, nk_unassigned, nk_appended>>

varsTF == <<tf_pc, tf_p, tf_knots, tf_levels, tf_tensor, tf_u, tf_low, tf_high, tf_mid,
            tf_span, tf_ret>>

varsFV == <<fv_pc, fv_op, fv_p, fv_nctrl, fv_ctrl, fv_param, fv_N, fv_span, fv_t, fv_k,
            fv_acc, fv_out>>

varsWD == <<wd_pc, wd_path, wd_p, wd_ctrl, wd_w, wd_param, wd_out>>

varsCI == <<ci_pc, ci_exist, ci_p, ci_knots, ci_u, ci_span, ci_old, ci_temp, ci_new, ci_i>>

vars == <<varsFS, varsAE, varsEN, varsDC, varsRT, varsKI, varsUK, varsWS, varsEC, varsNK, varsTF, varsFV, varsWD, varsCI>>

Min(a, b) == IF a <= b THEN a ELSE b

SetMin(S) == CHOOSE x \in S : \A y \in S : x <= y

SetMax(S) == CHOOSE x \in S : \A y \in S : x >= y

RECURSIVE Prod(_)
\* VectorXi::prod()
Prod(s) == IF s = <<>> THEN 1 ELSE s[1] * Prod(Tail(s))


\* ========================================================== AdaptiveEncode
MaxIter == MaxRounds + 2

Dims(d) == 1..d

\* nctrl_pts(k) = all_knots[k].size() - p(k) - 1
AE_NCtrl(nknots, p) == [k \in DOMAIN nknots |-> nknots[k] - p[k] - 1]

\* AdaptiveEncode is not running
AE_Idle ==
    /\ ae_pc = "idle" /\ ae_p = <<>> /\ ae_ndom = <<>> /\ ae_nknots = <<>>
    /\ ae_ntensors = 0 /\ ae_t_rows = 0 /\ ae_t_src = "unset"
    /\ ae_max_rounds = 0 /\ ae_iter = 0 /\ ae_retval = 0 /\ ae_need = <<>>
    /\ ae_rounds = 0 /\ ae_ins = {} /\ ae_loc_nctrl = <<>> /\ ae_loc_rows = 0

\* the model after MFA_Data construction and set_knots (one tensor over all
\* knots), possibly after a FixedEncode, at the call of AdaptiveEncode
AE_Init ==
    /\ \E d \in 1..MaxDim :
          /\ ae_p \in [Dims(d) -> 1..MaxP]
          /\ ae_ndom \in [Dims(d) -> 2..MaxDom]
          /\ ae_nknots \in [Dims(d) -> 4..(MaxDom + MaxP + 1)]
          /\ ae_need \in [Dims(d) -> 2..(MaxDom + 1)]
          /\ \A k \in Dims(d) :
                /\ ae_p[k] < ae_nknots[k] - ae_p[k] - 1
                /\ ae_nknots[k] - ae_p[k] - 1 <= ae_ndom[k]
                /\ ae_nknots[k] - ae_p[k] - 1 <= ae_need[k]
                /\ ae_need[k] <= ae_ndom[k] + 1
    /\ ae_ntensors = 1
    /\ ae_t_rows = Prod(AE_NCtrl(ae_nknots, ae_p))
    /\ ae_t_src \in {"unset", "fixed"}
    /\ ae_max_rounds \in 0..MaxRounds
    /\ ae_pc = "head"
    /\ ae_iter = 0 /\ ae_retval = 0 /\ ae_rounds = 0 /\ ae_ins = {}
    /\ ae_loc_nctrl = <<>> /\ ae_loc_rows = 0

AE_CapReached_Late(max_rounds, iter) == max_rounds > 0 /\ iter > max_rounds

\* the optional cap on the number of rounds
AE_CapReached(max_rounds, iter) == max_rounds > 0 /\ iter >= max_rounds

\* NewKnots<T>::FirstErrorSpan: the dimensions it may insert a knot into; it
\* returns true (done) when it inserts none
FirstErrorSpan_Candidates(nknots, p, need) ==
    { k \in DOMAIN nknots : nknots[k] - p[k] - 1 < need[k] }

\* Tmesh::append_tensor, called once for every tensor present before the round
AppendTensors(ntensors) == Min(2 * ntensors, MaxTensors)

\* the value NewKnots_full returns: -1 when some dimension has
\* ndom_pts(k) <= nctrl_pts(k), else the flag done converted to int
NewKnots_full_Return(ndom, nctrl, done) ==
    IF \E k \in DOMAIN ndom : ndom[k] <= nctrl[k] THEN -1
    ELSE IF done THEN 1 ELSE 0

\* if (max_rounds > 0 && iter >= max_rounds) break;
AE_CapBreak ==
    /\ ae_pc = "head"
    /\ AE_CapReached(ae_max_rounds, ae_iter)
    /\ ae_pc' = "done"
    /\ UNCHANGED <<ae_p, ae_ndom, ae_nknots, ae_ntensors, ae_t_rows, ae_t_src,
                   ae_max_rounds, ae_iter, ae_retval, ae_need, ae_rounds, ae_ins,
                   ae_loc_nctrl, ae_loc_rows>>
    /\ UNCHANGED <<varsFS, varsEN, varsDC, varsRT, varsKI, varsUK, varsWS, varsEC, varsNK, varsTF, varsFV, varsWD, varsCI>>

\* int retval = NewKnots_full(err_limit, extents, iter): the encode into the
\* local ctrl_pts and weights, FirstErrorSpan, the appended tensors, the return
AE_Round ==
    /\ ae_pc = "head"
    /\ ~AE_CapReached(ae_max_rounds, ae_iter)
    /\ LET nctrl == AE_NCtrl(ae_nknots, ae_p)
           cand  == FirstErrorSpan_Candidates(ae_nknots, ae_p, ae_need)
       IN  /\ ae_loc_nctrl' = nctrl
           /\ ae_loc_rows' = Prod(nctrl)
           /\ \E ins \in SUBSET cand :
                 /\ (ins = {}) <=> (cand = {})
                 /\ ae_ins' = ins
                 /\ ae_nknots' = [k \in DOMAIN ae_nknots |->
                                     IF k \in ins THEN ae_nknots[k] + 1 ELSE ae_nknots[k]]
                 /\ ae_retval' = NewKnots_full_Return(ae_ndom, nctrl, ins = {})
           /\ ae_ntensors' = AppendTensors(ae_ntensors)
    /\ ae_rounds' = Min(ae_rounds + 1, MaxIter)
    /\ ae_pc' = "check"
    /\ UNCHANGED <<ae_p, ae_ndom, ae_t_rows, ae_t_src, ae_max_rounds, ae_iter, ae_need>>
    /\ UNCHANGED <<varsFS, varsEN, varsDC, varsRT, varsKI, varsUK, varsWS, varsEC, varsNK, varsTF, varsFV, varsWD, varsCI>>

\* if (retval == 0) break;
AE_BreakZero ==
    /\ ae_pc = "check"
    /\ ae_retval = 0
    /\ ae_pc' = "done"
    /\ UNCHANGED <<ae_p, ae_ndom, ae_nknots, ae_ntensors, ae_t_rows, ae_t_src,
                   ae_max_rounds, ae_iter, ae_retval, ae_need, ae_rounds, ae_ins,
                   ae_loc_nctrl, ae_loc_rows>>
    /\ UNCHANGED <<varsFS, varsEN, varsDC, varsRT, varsKI, varsUK, varsWS, varsEC, varsNK, varsTF, varsFV, varsWD, varsCI>>

\* if (retval == -1) break;
AE_BreakLimit ==
    /\ ae_pc = "check"
    /\ ae_retval = -1
    /\ ae_pc' = "done"
    /\ UNCHANGED <<ae_p, ae_ndom, ae_nknots, ae_ntensors, ae_t_rows, ae_t_src,
                   ae_max_rounds, ae_iter, ae_retval, ae_need, ae_rounds, ae_ins,
                   ae_loc_nctrl, ae_loc_rows>>
    /\ UNCHANGED <<varsFS, varsEN, varsDC, varsRT, varsKI, varsUK, varsWS, varsEC, varsNK, varsTF, varsFV, varsWD, varsCI>>

\* neither break is taken: iter++ and back to the top of the loop
AE_Continue ==
    /\ ae_pc = "check"
    /\ ae_retval # 0 /\ ae_retval # -1
    /\ ae_iter' = Min(ae_iter + 1, MaxIter)
    /\ ae_pc' = "head"
    /\ UNCHANGED <<ae_p, ae_ndom, ae_nknots, ae_ntensors, ae_t_rows, ae_t_src,
                   ae_max_rounds, ae_retval, ae_need, ae_rounds, ae_ins,
                   ae_loc_nctrl, ae_loc_rows>>
    /\ UNCHANGED <<varsFS, varsEN, varsDC, varsRT, varsKI, varsUK, varsWS, varsEC, varsNK, varsTF, varsFV, varsWD, varsCI>>

AE_Next == AE_CapBreak \/ AE_Round \/ AE_BreakZero \/ AE_BreakLimit \/ AE_Continue


\* ========================================================== Encoder::Encode
\* Encode is not running
EN_Idle ==
    /\ en_pc = "idle" /\ en_p = <<>> /\ en_ndom = <<>> /\ en_nctrl = <<>>
    /\ en_k = 0 /\ en_cs = 1 /\ en_ntemp = <<>> /\ en_todo = {}
    /\ en_ctrl = <<>> /\ en_w = <<>> /\ en_oob = FALSE /\ en_warn = FALSE
    /\ en_acc = {} /\ en_behind = "outside"

\* number of curves of dimension k (0-based): control points in the dimensions
\* before k, input points in the dimensions after it
NCurves(k, nctrl, ndom) ==
    Prod([i \in 1..Len(ndom) |->
             IF i - 1 < k THEN nctrl[i] ELSE IF i - 1 > k THEN ndom[i] ELSE 1])

RECURSIVE CurveOffset(_, _, _)
\* co[j] (with n = ntemp_ctrl(k)) and to[j] (with n = nctrl_pts(k)): the next
\* point inside a contiguous run of cs curves, cs * n past the start of the
\* previous run at the start of a run
CurveOffset(j, cs, n) ==
    IF j = 0 THEN 0
    ELSE IF j % cs # 0 THEN CurveOffset(j - 1, cs, n) + 1
    ELSE CurveOffset(j - cs, cs, n) + cs * n

CurveRows_UnitStride(start, cs, n) == { start + i : i \in 0..(n - 1) }

\* the rows start + i * cs, i < n, that a curve reads or writes
CurveRows(start, cs, n) == { start + i * cs : i \in 0..(n - 1) }

\* tot_ntemp_ctrl, the rows of each of the two temporary buffers
TotNTempCtrl(nctrl, ndom) ==
    Prod([i \in 1..Len(ndom) |-> IF i = 1 THEN nctrl[i] ELSE ndom[i]])

\* CopyCtrl: the buffer the solved points of a curve of dimension k go to
CopyCtrl_Target(k, ndims) ==
    IF ndims = 1 THEN "ctrl_pts"
    ELSE IF k = 0 THEN "temp_ctrl0"
    ELSE IF k % 2 = 0 /\ k < ndims - 1 THEN "temp_ctrl0"
    ELSE IF k % 2 = 1 /\ k < ndims - 1 THEN "temp_ctrl1"
    ELSE "ctrl_pts"

\* CtrlCurve: the buffer a curve of dimension k reads its input points from
CtrlCurve_Source(k) ==
    IF k = 0 THEN "domain" ELSE IF k % 2 = 1 THEN "temp_ctrl0" ELSE "temp_ctrl1"

\* rows of a buffer
BufferRows(buf, nctrl, ndom) ==
    IF buf = "domain" THEN Prod(ndom)
    ELSE IF buf = "ctrl_pts" \/ buf = "weights" THEN Prod(nctrl)
    ELSE TotNTempCtrl(nctrl, ndom)

\* what a read or write of a row past the end of a buffer can land on: the
\* buffers are column-major, so the row lies in the next column of the same
\* buffer, and in its last column behind the buffer, in another buffer of
\* Encode or in memory outside them
EN_Victims == {"next_column", "temp_ctrl0", "temp_ctrl1", "ctrl_pts", "weights", "outside"}

\* the accesses of curve j of dimension k to the rows of buf: a row inside the
\* buffer is that row, a row past its end is a row of the victim
EN_Access(k, j, mode, buf, rows, victim, nctrl, ndom) ==
    LET n == BufferRows(buf, nctrl, ndom)
        v == IF victim = "next_column" THEN buf ELSE victim
    IN  { <<k, j, mode, buf, r>> : r \in { x \in rows : x < n } } \cup
        { IF v = "outside" THEN <<k, j, mode, "outside", r>>
          ELSE <<k, j, mode, v, (r - n) % BufferRows(v, nctrl, ndom)>> :
          r \in { x \in rows : x >= n } }

\* one more write to each of the rows W (0-based) of a buffer of write counts
CountWrites(cnt, W) ==
    [r \in 1..Len(cnt) |-> IF (r - 1) \in W THEN cnt[r] + 1 ELSE cnt[r]]

EN_Init ==
    /\ \E d \in 1..EncMaxDim :
          /\ en_p \in [Dims(d) -> 1..MaxP]
          /\ en_ndom \in [Dims(d) -> 2..EncMaxDom]
          /\ en_nctrl \in [Dims(d) -> 1..EncMaxDom]
          /\ \A k \in 0..(d - 1) : NCurves(k, en_nctrl, en_ndom) <= EncMaxCurves
    /\ en_pc = "quants"
    /\ en_k = 0 /\ en_cs = 1 /\ en_ntemp = <<>> /\ en_todo = {}
    /\ en_ctrl = <<>> /\ en_w = <<>> /\ en_oob = FALSE /\ en_warn = FALSE
    /\ en_acc = {} /\ en_behind = "outside"

\* Quants, the resize of the outputs and the set-up of the first dimension
EN_Quants ==
    /\ en_pc = "quants"
    /\ IF \E i \in DOMAIN en_p : en_nctrl[i] <= en_p[i]
       THEN /\ en_pc' = "exit"
            /\ UNCHANGED <<en_ctrl, en_w, en_ntemp, en_todo, en_warn, en_behind>>
       ELSE /\ en_warn' = (\E i \in DOMAIN en_p : en_nctrl[i] > en_ndom[i])
            /\ en_behind' \in IF en_warn' THEN EN_Victims ELSE {"outside"}
            /\ en_ctrl' = [r \in 1..Prod(en_nctrl) |-> 0]
            /\ en_w' = [r \in 1..Prod(en_nctrl) |-> 0]
            /\ en_ntemp' = en_ndom
            /\ en_todo' = 0..(NCurves(0, en_nctrl, en_ndom) - 1)
            /\ en_pc' = "curves"
    /\ UNCHANGED <<en_p, en_ndom, en_nctrl, en_k, en_cs, en_oob, en_acc>>
    /\ UNCHANGED <<varsFS, varsAE, varsDC, varsRT, varsKI, varsUK, varsWS, varsEC, varsNK, varsTF, varsFV, varsWD, varsCI>>

\* CtrlCurve for curve j of the current dimension; the curves of a dimension
\* run in any order (parallel_for)
EN_CtrlCurve ==
    /\ en_pc = "curves"
    /\ \E j \in en_todo :
          LET ndims == Len(en_ndom)
              co    == CurveOffset(j, en_cs, en_ntemp[en_k + 1])
              to    == CurveOffset(j, en_cs, en_nctrl[en_k + 1])
              R     == CurveRows(co, en_cs, en_ndom[en_k + 1])
              W     == CurveRows(to, en_cs, en_nctrl[en_k + 1])
              src   == CtrlCurve_Source(en_k)
              dst   == CopyCtrl_Target(en_k, ndims)
              Wts   == IF en_k = ndims - 1 THEN W ELSE {}
          IN  /\ en_todo' = en_todo \ {j}
              /\ en_acc' = en_acc \cup
                    EN_Access(en_k, j, "r", src, R, en_behind, en_nctrl, en_ndom) \cup
                    EN_Access(en_k, j, "w", dst, W, en_behind, en_nctrl, en_ndom) \cup
                    EN_Access(en_k, j, "w", "weights", Wts, en_behind, en_nctrl, en_ndom)
              /\ en_ctrl' = IF dst = "ctrl_pts" THEN CountWrites(en_ctrl, W) ELSE en_ctrl
              /\ en_w' = IF en_k = ndims - 1 THEN CountWrites(en_w, W) ELSE en_w
              /\ en_oob' = \/ en_oob
                           \/ \E r \in R : r >= BufferRows(src, en_nctrl, en_ndom)
                           \/ \E r \in W : r >= BufferRows(dst, en_nctrl, en_ndom)
                           \/ en_k = ndims - 1 /\ \E r \in W : r >= Len(en_w)
    /\ UNCHANGED <<en_pc, en_p, en_ndom, en_nctrl, en_k, en_cs, en_ntemp, en_warn, en_behind>>
    /\ UNCHANGED <<varsFS, varsAE, varsDC, varsRT, varsKI, varsUK, varsWS, varsEC, varsNK, varsTF, varsFV, varsWD, varsCI>>

\* all curves of dimension k have finished: adjust offsets and strides for the
\* next dimension, or return after the last one
EN_NextDim ==
    /\ en_pc = "curves"
    /\ en_todo = {}
    /\ en_ntemp' = [en_ntemp EXCEPT ![en_k + 1] = en_nctrl[en_k + 1]]
    /\ en_cs' = en_cs * en_nctrl[en_k + 1]
    /\ IF en_k + 1 < Len(en_ndom)
       THEN /\ en_k' = en_k + 1
            /\ en_todo' = 0..(NCurves(en_k + 1, en_nctrl, en_ndom) - 1)
            /\ en_pc' = "curves"
       ELSE /\ en_pc' = "done"
            /\ UNCHANGED <<en_k, en_todo>>
    /\ UNCHANGED <<en_p, en_ndom, en_nctrl, en_ctrl, en_w, en_oob, en_warn, en_acc,
                   en_behind>>
    /\ UNCHANGED <<varsFS, varsAE, varsDC, varsRT, varsKI, varsUK, varsWS, varsEC, varsNK, varsTF, varsFV, varsWD, varsCI>>

EN_Next == EN_Quants \/ EN_CtrlCurve \/ EN_NextDim


\* ================================================= rational denominators
RECURSIVE SumSeq(_)
SumSeq(s) == IF s = <<>> THEN 0 ELSE s[1] + SumSeq(Tail(s))

\* (N.row(r).cwiseProduct(weights.transpose())).sum()
RowDenom(N, weights, r) == SumSeq([c \in 1..Len(weights) |-> N[r][c] * weights[c]])

\* RHS from the input domain: denom(k), replaced by 1 when it is 0 in a build
\* with UNCLAMPED_KNOTS
RHS_domain_Denom(N, weights, r, unclamped) ==
    IF unclamped /\ RowDenom(N, weights, r) = 0 THEN 1 ELSE RowDenom(N, weights, r)

\* RHS from an intermediate buffer (in_pts): denom(k)
RHS_in_pts_Denom(N, weights, r) == RowDenom(N, weights, r)

\* Rationalize: denom(j)
Rationalize_Denom(N, weights, r) == RowDenom(N, weights, r)

RT_Idle ==
    /\ rt_pc = "idle" /\ rt_unclamped = FALSE /\ rt_k = 0 /\ rt_N = <<>>
    /\ rt_weights = <<>> /\ rt_rhs_div = <<>> /\ rt_rat_div = <<>>

\* basis values are non-negative and, with clamped knots, every row has a
\* non-zero entry (partition of unity); the weights of a curve are positive
RT_Init ==
    /\ rt_pc = "call"
    /\ rt_unclamped \in BOOLEAN
    /\ rt_k \in 0..1
    /\ rt_N \in [1..RatRows -> [1..RatCols -> 0..1]]
    /\ rt_unclamped \/ \A r \in 1..RatRows : \E c \in 1..RatCols : rt_N[r][c] # 0
    /\ rt_weights \in [1..RatCols -> 1..2]
    /\ rt_rhs_div = <<>> /\ rt_rat_div = <<>>

\* CtrlCurve: RHS (from the domain for k = 0, from a temporary buffer for
\* k > 0), then Rationalize
RT_CtrlCurve ==
    /\ rt_pc = "call"
    /\ rt_rhs_div' = [r \in 1..Len(rt_N) |->
                         IF rt_k = 0
                         THEN RHS_domain_Denom(rt_N, rt_weights, r, rt_unclamped)
                         ELSE RHS_in_pts_Denom(rt_N, rt_weights, r)]
    /\ rt_rat_div' = [r \in 1..Len(rt_N) |-> Rationalize_Denom(rt_N, rt_weights, r)]
    /\ rt_pc' = "done"
    /\ UNCHANGED <<rt_unclamped, rt_k, rt_N, rt_weights>>
    /\ UNCHANGED <<varsFS, varsAE, varsEN, varsDC, varsKI, varsUK, varsWS, varsEC, varsNK, varsTF, varsFV, varsWD, varsCI>>

RT_Next == RT_CtrlCurve

\* ======================================================== model life, decode
DC_Idle ==
    /\ dc_proc = "idle" /\ dc_p = <<>> /\ dc_nctrl = <<>> /\ dc_model = "constructed"
    /\ dc_weights = <<>> /\ dc_decoder = FALSE /\ dc_op = "none" /\ dc_viol = "none"
    /\ dc_outcome = "none" /\ dc_denom = -1 /\ dc_divisor = -1 /\ dc_diag = FALSE

RECURSIVE Pow(_, _)
Pow(b, e) == IF e = 0 THEN 1 ELSE b * Pow(b, e - 1)

RECURSIVE Binom(_, _)
Binom(n, k) == IF k = 0 \/ k = n THEN 1 ELSE Binom(n - 1, k - 1) + Binom(n - 1, k)

\* the p + 1 basis values at u of a tensor with p + 1 control points (knots
\* 0 .. 0 1 .. 1), times KnotMax^p
BasisFuns(p, u) ==
    [i \in 1..(p + 1) |-> Binom(p, i - 1) * Pow(u, i - 1) * Pow(KnotMax - u, p - (i - 1))]

\* FindSpan(cur_dim, u, tensor) for a tensor with p + 1 control points of
\* level 0: -1 outside the knot range of the tensor, else p
FindSpan_tensor(p, u) == IF u < 0 \/ u > KnotMax THEN -1 ELSE p

\* Decoder::Decoder: cs, the stride of the control points of each dimension
CtrlStride(nctrl, k) == Prod([i \in 1..(k - 1) |-> nctrl[i]])

RECURSIVE VolDenom(_, _, _, _, _)
\* temp_denom of VolPt: the weights of the (p + 1)^d control points around the
\* point, each times its basis value in every dimension, folded one dimension
\* into the next
VolDenom(k, idx, N, weights, nctrl) ==
    IF k = 0 THEN weights[idx + 1]
    ELSE SumSeq([i \in 1..Len(N[k]) |->
                    N[k][i] * VolDenom(k - 1, idx + (i - 1) * CtrlStride(nctrl, k),
                                       N, weights, nctrl)])

DC_Init ==
    /\ dc_proc = "running"
    /\ \E d \in 1..MaxDim :
          /\ dc_p \in [Dims(d) -> 1..MaxP]
          /\ dc_nctrl \in [Dims(d) -> 1..(MaxP + 1)]
          /\ \A k \in Dims(d) : dc_nctrl[k] \in {dc_p[k], dc_p[k] + 1}
          /\ Prod(dc_nctrl) <= DecMaxPts
    /\ dc_model = "constructed"
    /\ dc_weights = <<>> /\ dc_decoder = FALSE /\ dc_op = "none" /\ dc_viol = "none"
    /\ dc_outcome = "none" /\ dc_denom = -1 /\ dc_divisor = -1 /\ dc_diag = FALSE

DC_NoDecode == dc_denom' = -1 /\ dc_divisor' = -1 /\ dc_diag' = FALSE

\* MFA::FixedEncode: Quants ends the process when nctrl_pts(i) <= p(i), else
\* the tensor gets its control points and (positive) weights
DC_FixedEncode ==
    /\ dc_proc = "running" /\ dc_model = "constructed"
    /\ dc_op' = "FixedEncode"
    /\ IF \E i \in DOMAIN dc_p : dc_nctrl[i] <= dc_p[i]
       THEN /\ dc_viol' = "nctrl_le_p"
            /\ dc_proc' = "exit1"
            /\ dc_outcome' = "none"
            /\ UNCHANGED <<dc_model, dc_weights>>
       ELSE /\ dc_viol' = "none"
            /\ dc_outcome' = "ok"
            /\ dc_model' = "encoded"
            /\ dc_weights' \in [1..Prod(dc_nctrl) -> 1..2]
            /\ UNCHANGED dc_proc
    /\ DC_NoDecode
    /\ UNCHANGED <<dc_p, dc_nctrl, dc_decoder>>
    /\ UNCHANGED <<varsFS, varsAE, varsEN, varsRT, varsKI, varsUK, varsWS, varsEC, varsNK, varsTF, varsFV, varsWD, varsCI>>

\* MFA_Data constructed from a solved tmesh that was read in: the weights are
\* whatever the file held, non-negative
DC_Load ==
    /\ dc_proc = "running" /\ dc_model = "constructed"
    /\ \A i \in DOMAIN dc_p : dc_nctrl[i] = dc_p[i] + 1
    /\ dc_op' = "Load"
    /\ dc_model' = "loaded"
    /\ dc_weights' \in [1..Prod(dc_nctrl) -> 0..1]
    /\ dc_viol' = "none" /\ dc_outcome' = "ok"
    /\ DC_NoDecode
    /\ UNCHANGED <<dc_proc, dc_p, dc_nctrl, dc_decoder>>
    /\ UNCHANGED <<varsFS, varsAE, varsEN, varsRT, varsKI, varsUK, varsWS, varsEC, varsNK, varsTF, varsFV, varsWD, varsCI>>

\* Decoder::Decoder: exit(0) when the first tensor has no control points yet
DC_NewDecoder ==
    /\ dc_proc = "running" /\ ~dc_decoder
    /\ dc_op' = "Decoder"
    /\ IF dc_model = "constructed"
       THEN /\ dc_viol' = "decode_before_encode"
            /\ dc_proc' = "exit0"
            /\ dc_outcome' = "none"
            /\ UNCHANGED dc_decoder
       ELSE /\ dc_viol' = "none"
            /\ dc_outcome' = "ok"
            /\ dc_decoder' = TRUE
            /\ UNCHANGED dc_proc
    /\ DC_NoDecode
    /\ UNCHANGED <<dc_p, dc_nctrl, dc_model, dc_weights>>
    /\ UNCHANGED <<varsFS, varsAE, varsEN, varsRT, varsKI, varsUK, varsWS, varsEC, varsNK, varsTF, varsFV, varsWD, varsCI>>

Params(d) == [Dims(d) -> (0 - 1)..(KnotMax + 1)]

\* derivs: size 0 (unused), one entry per dimension, or one entry too many
Derivs(d) == {<<>>} \cup [Dims(d) -> 0..1] \cup {[i \in 1..(d + 1) |-> 0]}

\* the spans VolPt gets from FindSpan(i, param(i), tensor)
DC_Spans(param) == [k \in DOMAIN dc_p |-> FindSpan_tensor(dc_p[k], param[k])]

\* the denominator the volume iteration accumulates at param
DC_VolDenom(param) ==
    VolDenom(Len(dc_p), 0, [k \in DOMAIN dc_p |-> BasisFuns(dc_p[k], param[k])],
             dc_weights, dc_nctrl)

\* Decoder::VolPt(param, out_pt, tensor, derivs): exit(0) for a derivs vector of
\* the wrong size; the spans are used as FindSpan returned them; the last
\* coordinate is divided by denom
DC_VolPt ==
    /\ dc_proc = "running" /\ dc_decoder
    /\ dc_op' = "VolPt"
    /\ \E param \in Params(Len(dc_p)), derivs \in Derivs(Len(dc_p)) :
          IF derivs # <<>> /\ Len(derivs) # Len(dc_p)
          THEN /\ dc_viol' = "derivs_size"
               /\ dc_proc' = "exit0"
               /\ dc_outcome' = "none"
               /\ DC_NoDecode
          ELSE IF \E k \in DOMAIN dc_p : DC_Spans(param)[k] = -1
          THEN \* span - p < 0 subscripts N and ctrl_pts: any value may be read
               /\ dc_viol' = "param_range"
               /\ dc_outcome' = "ok"
               /\ dc_denom' \in 0..1
               /\ dc_divisor' = dc_denom'
               /\ dc_diag' = FALSE
               /\ UNCHANGED dc_proc
          ELSE /\ dc_viol' = "none"
               /\ dc_outcome' = "ok"
               /\ dc_denom' = DC_VolDenom(param)
               /\ dc_divisor' = IF derivs # <<>> /\ SumSeq(derivs) # 0
                                THEN 1 ELSE DC_VolDenom(param)
               /\ dc_diag' = FALSE
               /\ UNCHANGED dc_proc
    /\ UNCHANGED <<dc_p, dc_nctrl, dc_model, dc_weights, dc_decoder>>
    /\ UNCHANGED <<varsFS, varsAE, varsEN, varsRT, varsKI, varsUK, varsWS, varsEC, varsNK, varsTF, varsFV, varsWD, varsCI>>

\* Decoder::VolPt_saved_basis: the same accumulation from the saved basis
\* functions of an input point; the last coordinate is divided by denom
DC_VolPt_saved_basis ==
    /\ dc_proc = "running" /\ dc_decoder
    /\ dc_op' = "VolPt_saved_basis"
    /\ \E param \in [DOMAIN dc_p -> 0..KnotMax] :
          /\ dc_denom' = DC_VolDenom(param)
          /\ dc_divisor' = DC_VolDenom(param)
    /\ dc_viol' = "none" /\ dc_outcome' = "ok" /\ dc_diag' = FALSE
    /\ UNCHANGED <<dc_proc, dc_p, dc_nctrl, dc_model, dc_weights, dc_decoder>>
    /\ UNCHANGED <<varsFS, varsAE, varsEN, varsRT, varsKI, varsUK, varsWS, varsEC, varsNK, varsTF, varsFV, varsWD, varsCI>>

\* Decoder::VolPt_tmesh: B_sum, the sum of the weighted basis functions of the
\* control points; the point is divided by it only when it is positive, else a
\* warning is written
DC_VolPt_tmesh ==
    /\ dc_proc = "running" /\ dc_decoder
    /\ dc_op' = "VolPt_tmesh"
    /\ \E param \in [DOMAIN dc_p -> 0..KnotMax] :
          LET B_sum == DC_VolDenom(param)
          IN  /\ dc_denom' = B_sum
              /\ dc_divisor' = IF B_sum > 0 THEN B_sum ELSE -1
              /\ dc_diag' = ~(B_sum > 0)
    /\ dc_viol' = "none" /\ dc_outcome' = "ok"
    /\ UNCHANGED <<dc_proc, dc_p, dc_nctrl, dc_model, dc_weights, dc_decoder>>
    /\ UNCHANGED <<varsFS, varsAE, varsEN, varsRT, varsKI, varsUK, varsWS, varsEC, varsNK, varsTF, varsFV, varsWD, varsCI>>

\* Decoder::CurvePt along dimension cur_dim with the caller's control points
\* and weights: out_pt /= denom
DC_CurvePt ==
    /\ dc_proc = "running" /\ dc_decoder
    /\ dc_op' = "CurvePt"
    /\ \E cur_dim \in DOMAIN dc_p, u \in (0 - 1)..(KnotMax + 1) :
       \E temp_weights \in [1..(dc_p[cur_dim] + 1) -> 0..1] :
          IF FindSpan_tensor(dc_p[cur_dim], u) = -1
          THEN /\ dc_viol' = "param_range"
               /\ dc_denom' \in 0..1
               /\ dc_divisor' = dc_denom'
          ELSE /\ dc_viol' = "none"
               /\ dc_denom' = RowDenom(<<BasisFuns(dc_p[cur_dim], u)>>, temp_weights, 1)
               /\ dc_divisor' = dc_denom'
    /\ dc_outcome' = "ok" /\ dc_diag' = FALSE
    /\ UNCHANGED <<dc_proc, dc_p, dc_nctrl, dc_model, dc_weights, dc_decoder>>
    /\ UNCHANGED <<varsFS, varsAE, varsEN, varsRT, varsKI, varsUK, varsWS, varsEC, varsNK, varsTF, varsFV, varsWD, varsCI>>

DC_Next ==
    \/ DC_FixedEncode \/ DC_Load \/ DC_NewDecoder
    \/ DC_VolPt \/ DC_VolPt_saved_basis \/ DC_VolPt_tmesh \/ DC_CurvePt

\* ================================================================ FindSpan
\* all_knots[cur_dim][i], the source's 0-based subscript
Knot(knots, i) == knots[i + 1]

NonDecreasing(s) == \A i \in 1..(Len(s) - 1) : s[i] <= s[i + 1]

\* knot vectors of nctrl control points and degree p with p + 1 repeated knots
\* at each end (the default, clamped configuration)
ClampedKnots(p, nctrl) ==
    { [i \in 1..(nctrl + p + 1) |->
          IF i <= p + 1 THEN 0
          ELSE IF i > nctrl THEN KnotMax
          ELSE inner[i - (p + 1)]] :
      inner \in { s \in [1..(nctrl - p - 1) -> 0..KnotMax] : NonDecreasing(s) } }

\* the early return of FindSpan for u at the end of the knot range
FS_EndSpan(nctrl) == nctrl - 1

FS_Mid(low, high) == (low + high) \div 2

FS_LoopCond_OffByOne(knots, u, mid) ==
    u < Knot(knots, mid) \/ u > Knot(knots, mid + 1)

\* the condition of the while loop of the binary search
FS_LoopCond(knots, u, mid) ==
    u < Knot(knots, mid) \/ u >= Knot(knots, mid + 1)

\* FindSpan is not running
FS_Idle ==
    /\ fs_pc = "idle" /\ fs_p = 0 /\ fs_nctrl = 0 /\ fs_knots = <<>> /\ fs_u = 0
    /\ fs_low = 0 /\ fs_high = 0 /\ fs_mid = 0 /\ fs_ret = -2

FS_Init ==
    /\ fs_p \in 0..MaxP
    /\ fs_nctrl \in (fs_p + 1)..MaxCtrl
    /\ fs_knots \in ClampedKnots(fs_p, fs_nctrl)
    /\ fs_u \in (0 - 1)..(KnotMax + 1)
    /\ fs_pc = "call"
    /\ fs_low = 0 /\ fs_high = 0 /\ fs_mid = 0
    /\ fs_ret = -2

\* entry of FindSpan(cur_dim, u, nctrl_pts): the test for the end of the range
\* and the initialisation of the binary search
FS_Call ==
    /\ fs_pc = "call"
    /\ IF fs_u = Knot(fs_knots, fs_nctrl)
       THEN /\ fs_ret' = FS_EndSpan(fs_nctrl)
            /\ fs_pc' = "done"
            /\ UNCHANGED <<fs_low, fs_high, fs_mid>>
       ELSE /\ fs_low' = fs_p
            /\ fs_high' = fs_nctrl
            /\ fs_mid' = FS_Mid(fs_p, fs_nctrl)
            /\ fs_pc' = "loop"
            /\ UNCHANGED fs_ret
    /\ UNCHANGED <<fs_p, fs_nctrl, fs_knots, fs_u>>
    /\ UNCHANGED <<varsAE, varsEN, varsDC, varsRT, varsKI, varsUK, varsWS, varsEC, varsNK, varsTF, varsFV, varsWD, varsCI>>

\* one iteration of the while loop
FS_Loop ==
    /\ fs_pc = "loop"
    /\ FS_LoopCond(fs_knots, fs_u, fs_mid)
    /\ IF fs_u < Knot(fs_knots, fs_mid)
       THEN /\ fs_high' = fs_mid
            /\ fs_low' = fs_low
            /\ fs_mid' = FS_Mid(fs_low, fs_mid)
       ELSE /\ fs_low' = fs_mid
            /\ fs_high' = fs_high
            /\ fs_mid' = FS_Mid(fs_mid, fs_high)
    /\ UNCHANGED <<fs_pc, fs_p, fs_nctrl, fs_knots, fs_u, fs_ret>>
    /\ UNCHANGED <<varsAE, varsEN, varsDC, varsRT, varsKI, varsUK, varsWS, varsEC, varsNK, varsTF, varsFV, varsWD, varsCI>>

\* the loop condition is false: return mid
FS_Return ==
    /\ fs_pc = "loop"
    /\ ~FS_LoopCond(fs_knots, fs_u, fs_mid)
    /\ fs_ret' = fs_mid
    /\ fs_pc' = "done"
    /\ UNCHANGED <<fs_p, fs_nctrl, fs_knots, fs_u, fs_low, fs_high, fs_mid>>
    /\ UNCHANGED <<varsAE, varsEN, varsDC, varsRT, varsKI, varsUK, varsWS, varsEC, varsNK, varsTF, varsFV, varsWD, varsCI>>

FS_Next == FS_Call \/ FS_Loop \/ FS_Return

\* ============================================================ knot insertion
\* ---- exact fractions <<numerator, denominator>>
RECURSIVE GCD(_, _)
GCD(a, b) == IF b = 0 THEN a ELSE GCD(b, a % b)

Abs(x) == IF x < 0 THEN 0 - x ELSE x

\* the fraction n / d in lowest terms; a division by zero gives NaN, which
\* every operation hands on
NaN == <<0, 0>>

Frac(n, d) ==
    IF d = 0 THEN NaN
    ELSE LET g == GCD(Abs(n), Abs(d))
             s == IF d < 0 THEN 0 - 1 ELSE 1
         IN  <<(s * n) \div g, (s * d) \div g>>

FInt(n) == <<n, 1>>

FAdd(x, y) == Frac(x[1] * y[2] + y[1] * x[2], x[2] * y[2])

FMul(x, y) == Frac(x[1] * y[1], x[2] * y[2])

FDiv(x, y) == Frac(x[1] * y[2], x[2] * y[1])

RECURSIVE FSum(_)
FSum(s) == IF s = <<>> THEN FInt(0) ELSE FAdd(s[1], FSum(Tail(s)))

\* element i (0-based, as in the source) of a vector
At(s, i) == s[i + 1]

RECURSIVE FindSpan_Search(_, _, _, _)
\* the binary search of FindSpan from the limits low and high
FindSpan_Search(knots, u, low, high) ==
    LET mid == FS_Mid(low, high)
    IN  IF FS_LoopCond(knots, u, mid)
        THEN IF u < Knot(knots, mid)
             THEN FindSpan_Search(knots, u, low, mid)
             ELSE FindSpan_Search(knots, u, mid, high)
        ELSE mid

\* FindSpan(cur_dim, u, nctrl_pts), for u inside the knot range
FindSpan(knots, p, nctrl, u) ==
    IF u = Knot(knots, nctrl) THEN FS_EndSpan(nctrl)
    ELSE FindSpan_Search(knots, u, p, nctrl)

\* the search of FindSpan comes to an end only for u inside the knot range
FindSpan_Returns(knots, p, nctrl, u) ==
    Knot(knots, p) <= u /\ u <= Knot(knots, nctrl)

\* uniform_knots_impl_structured: p + 1 knots at each end and nctrl - p - 1
\* internal knots one step apart, on the grid 0 .. KnotMax
UniformKnots(p, nctrl) ==
    [i \in 1..(nctrl + p + 1) |->
        IF i - 1 <= p THEN 0
        ELSE IF i - 1 >= nctrl THEN KnotMax
        ELSE (i - 1 - p) * (KnotMax \div (nctrl - p))]

\* NewCurveKnotIns: the test that ends the process
CurveKnotIns_Duplicate(knots, span, u) == Knot(knots, span) = u

\* NewCurveKnotIns: the new knot vector
CurveKnotIns_Knots(old_knots, span, u) ==
    [i \in 1..(Len(old_knots) + 1) |->
        IF i - 1 <= span THEN At(old_knots, i - 1)
        ELSE IF i - 1 = span + 1 THEN u
        ELSE At(old_knots, i - 2)]

\* the new knot levels if the new knot were given the level after the tensor's
CurveKnotIns_Levels_Bumped(old_levels, span, level) ==
    CurveKnotIns_Knots(old_levels, span, level + 1)

\* NewCurveKnotIns: the new knot levels, the new knot at span + 1 has the level
\* handed down by NewKnotInsertion, the level of the tensor
CurveKnotIns_Levels(old_levels, span, level) ==
    CurveKnotIns_Knots(old_levels, span, level)

\* alpha of new control point L + i
CurveKnotIns_Alpha(old_knots, p, span, u, i) ==
    LET L == span - p + 1
    IN  Frac(u - At(old_knots, L + i), At(old_knots, i + span + 1) - At(old_knots, L + i))

\* alpha * temp(i + 1) + (1 - alpha) * temp(i), for the control point and for
\* the weight of a <<point, weight>> pair
CurveKnotIns_Blend(alpha, lo, hi) ==
    <<FAdd(FMul(alpha, hi[1]), FMul(FAdd(FInt(1), FMul(FInt(0 - 1), alpha)), lo[1])),
      FAdd(FMul(alpha, hi[2]), FMul(FAdd(FInt(1), FMul(FInt(0 - 1), alpha)), lo[2]))>>

\* NewCurveKnotIns: the new control points and weights of one curve, rows of
\* <<point, weight>>: rows up to span - p kept, rows L .. span blended, rows
\* from span on moved up by one
CurveKnotIns_Ctrl(old_knots, p, span, u, old) ==
    LET L == span - p + 1
    IN  [r \in 1..(Len(old) + 1) |->
            LET i == r - 1
            IN  IF i <= span - p THEN At(old, i)
                ELSE IF i > span THEN At(old, i - 1)
                ELSE CurveKnotIns_Blend(CurveKnotIns_Alpha(old_knots, p, span, u, i - L),
                                        At(old, span - p + (i - L)),
                                        At(old, span - p + (i - L) + 1))]

RECURSIVE BasisFuns_Inner(_, _, _, _, _, _, _)
\* OrigBasisFuns, the loop over r for one j: scratch[r] and saved
BasisFuns_Inner(knots, span, u, j, r, scratch, saved) ==
    IF r = j THEN [scratch EXCEPT ![j + 1] = saved]
    ELSE LET right == At(knots, span + r + 1) - u
             left  == u - At(knots, span + 1 - (j - r))
             temp  == FDiv(At(scratch, r), FInt(right + left))
         IN  BasisFuns_Inner(knots, span, u, j, r + 1,
                             [scratch EXCEPT ![r + 1] = FAdd(saved, FMul(FInt(right), temp))],
                             FMul(FInt(left), temp))

RECURSIVE BasisFuns_Outer(_, _, _, _, _, _)
BasisFuns_Outer(knots, p, span, u, j, scratch) ==
    IF j > p THEN scratch
    ELSE BasisFuns_Outer(knots, p, span, u, j + 1,
                         BasisFuns_Inner(knots, span, u, j, 0, scratch, FInt(0)))

\* OrigBasisFuns: the p + 1 values of the basis functions span - p .. span at u
OrigBasisFuns(knots, p, span, u) ==
    BasisFuns_Outer(knots, p, span, u, 1, [i \in 1..(p + 1) |-> IF i = 1 THEN FInt(1) ELSE FInt(0)])

RECURSIVE KI_VolSum(_, _, _, _, _, _, _)
\* the volume sum of VolPt over the (p + 1)^d control points around the
\* point: vals[idx] times the basis values of the point in every dimension
KI_VolSum(k, idx, N, span, p, nctrl, vals) ==
    IF k = 0 THEN vals[idx + 1]
    ELSE FSum([i \in 1..(p[k] + 1) |->
                  FMul(N[k][i],
                       KI_VolSum(k - 1, idx + (span[k] - p[k] + i - 1) * CtrlStride(nctrl, k),
                                 N, span, p, nctrl, vals))])


\* ---- MFA_Data::NewKnotInsertion(param, tensor)
KI_NoLocals ==
    /\ ki_param = <<>> /\ ki_k = 0 /\ ki_todo = {} /\ ki_new_nctrl = <<>>
    /\ ki_old_cs = 1 /\ ki_new_cs = 1 /\ ki_buf0 = <<>> /\ ki_buf1 = <<>>
    /\ ki_new_knots = <<>> /\ ki_new_levels = <<>> /\ ki_wrote = {}

KI_Idle ==
    /\ ki_pc = "idle" /\ ki_p = <<>> /\ ki_tlevel = 0 /\ ki_knots = <<>>
    /\ ki_levels = <<>> /\ ki_nctrl = <<>> /\ ki_ctrl = <<>> /\ ki_w = <<>>
    /\ ki_knot_maxs = <<>> /\ ki_nins = 0
    /\ KI_NoLocals

\* init_knots: the knot levels of a dimension with nknots knots
init_knots_levels(nknots) == [i \in 1..nknots |-> 0]

\* a row of a buffer that has been resized but not written
Unset == <<<<0, 0 - 1>>, <<0, 0 - 1>>>>

\* a tensor over the knots of uniform_knots_impl_structured (levels 0, knot_maxs
\* as set_knots leaves them), with some control points and positive weights
KI_Init ==
    /\ ki_pc = "ready"
    /\ \E d \in 1..MaxDim :
          /\ ki_p \in [Dims(d) -> 1..MaxP]
          /\ ki_nctrl \in [Dims(d) -> 2..KiMaxPts]
          /\ \A k \in Dims(d) : /\ ki_nctrl[k] > ki_p[k]
                                /\ KnotMax % (ki_nctrl[k] - ki_p[k]) = 0
    /\ Prod(ki_nctrl) <= KiMaxPts
    /\ ki_knots = [k \in DOMAIN ki_p |-> UniformKnots(ki_p[k], ki_nctrl[k])]
    /\ ki_levels = [k \in DOMAIN ki_p |-> init_knots_levels(ki_nctrl[k] + ki_p[k] + 1)]
    /\ ki_knot_maxs = [k \in DOMAIN ki_p |-> ki_nctrl[k] + ki_p[k]]
    /\ ki_tlevel \in 0..KiMaxLevel
    /\ ki_ctrl \in [1..Prod(ki_nctrl) -> {FInt(0), FInt(1)}]
    /\ ki_w \in [1..Prod(ki_nctrl) -> {FInt(1), FInt(2)}]
    /\ ki_nins = 0
    /\ KI_NoLocals

\* NewVolKnotIns at the top of the loop over the dimensions, for dimension k:
\* new_knots[k] and new_knot_levels[k] resized, old_cs and new_cs, the curves
\* of the dimension, new_nctrl_pts(k)++
KI_EnterDim(k, new_nctrl, old_cs, new_cs, new_knots, new_levels) ==
    /\ ki_k' = k
    /\ ki_new_knots' = [new_knots EXCEPT ![k + 1] = [i \in 1..(Len(ki_knots[k + 1]) + 1) |-> 0]]
    /\ ki_new_levels' = [new_levels EXCEPT ![k + 1] = [i \in 1..(Len(ki_levels[k + 1]) + 1) |-> 0]]
    /\ ki_todo' = 0..((Prod(new_nctrl) \div new_nctrl[k + 1]) - 1)
    /\ ki_old_cs' = IF k = 0 THEN 1 ELSE old_cs * new_nctrl[k]
    /\ ki_new_cs' = IF k = 0 THEN 1 ELSE new_cs * new_nctrl[k]
    /\ ki_new_nctrl' = [new_nctrl EXCEPT ![k + 1] = new_nctrl[k + 1] + 1]
    /\ ki_wrote' = {}

\* the call, up to the first dimension of NewVolKnotIns
KI_Call ==
    /\ ki_pc = "ready"
    /\ ki_nins < KiMaxIns
    /\ Prod(ki_nctrl) <= KiMaxPts
    /\ ki_param' \in [DOMAIN ki_p -> (0 - 1)..(KnotMax + 1)]
    /\ ki_buf0' = [r \in 1..Prod([k \in DOMAIN ki_nctrl |-> ki_nctrl[k] + 1]) |-> Unset]
    /\ ki_buf1' = [r \in 1..Prod([k \in DOMAIN ki_nctrl |-> ki_nctrl[k] + 1]) |->
                      IF r <= Len(ki_ctrl) THEN <<ki_ctrl[r], ki_w[r]>> ELSE Unset]
    /\ KI_EnterDim(0, ki_nctrl, 1, 1, [k \in DOMAIN ki_p |-> <<>>], [k \in DOMAIN ki_p |-> <<>>])
    /\ ki_pc' = "curves"
    /\ UNCHANGED <<ki_p, ki_tlevel, ki_knots, ki_levels, ki_nctrl, ki_ctrl, ki_w,
                   ki_knot_maxs, ki_nins>>
    /\ UNCHANGED <<varsFS, varsAE, varsEN, varsDC, varsRT, varsUK, varsWS, varsEC, varsNK, varsTF, varsFV, varsWD, varsCI>>

\* the rows of a curve if the stride of the dimension were ignored
KI_CurveRowSeq_UnitStride(co, cs, n) == [i \in 1..n |-> co + (i - 1)]

\* the rows of the full set of control points that belong to one curve
KI_CurveRowSeq(co, cs, n) == [i \in 1..n |-> co + (i - 1) * cs]

\* the objects other than its own scratch that curve j of dimension k writes:
\* the knots and knot levels it hands to CurveKnotIns, and the rows
\* CtrlCurve2CtrlPts copies its new control points and weights to
KI_CurveWrites(k, rows) ==
    {<<"new_knots", k>>, <<"new_knot_levels", k>>} \cup
    {<<"row", rows[i]>> : i \in DOMAIN rows}

\* one curve of the current dimension: CtrlPts2CtrlCurve, CurveKnotIns,
\* CtrlCurve2CtrlPts; the curves of a dimension run in any order
KI_Curve ==
    /\ ki_pc = "curves"
    /\ \E j \in ki_todo :
          LET k       == ki_k
              knots   == ki_knots[k + 1]
              u       == ki_param[k + 1]
              n       == ki_nctrl[k + 1]
              src     == IF k % 2 = 0 THEN ki_buf1 ELSE ki_buf0
              oldrows == KI_CurveRowSeq(CurveOffset(j, ki_old_cs, n), ki_old_cs, n)
              newrows == KI_CurveRowSeq(CurveOffset(j, ki_new_cs, ki_new_nctrl[k + 1]),
                                        ki_new_cs, ki_new_nctrl[k + 1])
              old     == [i \in 1..n |-> At(src, oldrows[i])]
          IN  IF ~FindSpan_Returns(knots, ki_p[k + 1], n, u)
              THEN /\ ki_pc' = "hang"
                   /\ UNCHANGED <<ki_todo, ki_buf0, ki_buf1, ki_new_knots, ki_new_levels, ki_wrote>>
              ELSE LET span == FindSpan(knots, ki_p[k + 1], n, u)
                   IN  IF CurveKnotIns_Duplicate(knots, span, u)
                       THEN /\ ki_pc' = "exit0"
                            /\ UNCHANGED <<ki_todo, ki_buf0, ki_buf1, ki_new_knots,
                                           ki_new_levels, ki_wrote>>
                       ELSE LET new == CurveKnotIns_Ctrl(knots, ki_p[k + 1], span, u, old)
                                put(buf) == [r \in 1..Len(buf) |->
                                              IF \E i \in DOMAIN newrows : newrows[i] = r - 1
                                              THEN new[CHOOSE i \in DOMAIN newrows : newrows[i] = r - 1]
                                              ELSE buf[r]]
                            IN  /\ ki_new_knots' = [ki_new_knots EXCEPT ![k + 1] =
                                                       CurveKnotIns_Knots(knots, span, u)]
                                /\ ki_new_levels' = [ki_new_levels EXCEPT ![k + 1] =
                                                        CurveKnotIns_Levels(ki_levels[k + 1], span, ki_tlevel)]
                                /\ ki_buf0' = IF k % 2 = 0 THEN put(ki_buf0) ELSE ki_buf0
                                /\ ki_buf1' = IF k % 2 = 0 THEN ki_buf1 ELSE put(ki_buf1)
                                /\ ki_wrote' = ki_wrote \cup
                                                  {<<j, o>> : o \in KI_CurveWrites(k, newrows)}
                                /\ ki_todo' = ki_todo \ {j}
                                /\ UNCHANGED ki_pc
    /\ UNCHANGED <<ki_p, ki_tlevel, ki_knots, ki_levels, ki_nctrl, ki_ctrl, ki_w,
                   ki_knot_maxs, ki_nins, ki_param, ki_k, ki_new_nctrl, ki_old_cs, ki_new_cs>>
    /\ UNCHANGED <<varsFS, varsAE, varsEN, varsDC, varsRT, varsUK, varsWS, varsEC, varsNK, varsTF, varsFV, varsWD, varsCI>>

\* all curves of dimension k are done and another dimension follows
KI_NextDim ==
    /\ ki_pc = "curves"
    /\ ki_todo = {}
    /\ ki_k + 1 < Len(ki_p)
    /\ KI_EnterDim(ki_k + 1, ki_new_nctrl, ki_old_cs, ki_new_cs, ki_new_knots, ki_new_levels)
    /\ UNCHANGED <<ki_pc, ki_p, ki_tlevel, ki_knots, ki_levels, ki_nctrl, ki_ctrl, ki_w,
                   ki_knot_maxs, ki_nins, ki_param, ki_buf0, ki_buf1>>
    /\ UNCHANGED <<varsFS, varsAE, varsEN, varsDC, varsRT, varsUK, varsWS, varsEC, varsNK, varsTF, varsFV, varsWD, varsCI>>

\* after the last dimension: NewVolKnotIns hands back the buffer that holds
\* the result, NewKnotInsertion copies the results to the tmesh and the tensor
\* and moves knot_maxs up by one
KI_Return ==
    /\ ki_pc = "curves"
    /\ ki_todo = {}
    /\ ki_k + 1 = Len(ki_p)
    /\ LET result == IF Len(ki_p) % 2 = 0 THEN ki_buf1 ELSE ki_buf0
       IN  /\ ki_ctrl' = [r \in 1..Len(result) |-> result[r][1]]
           /\ ki_w' = [r \in 1..Len(result) |-> result[r][2]]
    /\ ki_nctrl' = ki_new_nctrl
    /\ ki_knots' = ki_new_knots
    /\ ki_levels' = ki_new_levels
    /\ ki_knot_maxs' = [k \in DOMAIN ki_knot_maxs |-> ki_knot_maxs[k] + 1]
    /\ ki_nins' = ki_nins + 1
    /\ ki_pc' = "ready"
    /\ ki_param' = <<>> /\ ki_k' = 0 /\ ki_todo' = {} /\ ki_new_nctrl' = <<>>
    /\ ki_old_cs' = 1 /\ ki_new_cs' = 1 /\ ki_buf0' = <<>> /\ ki_buf1' = <<>>
    /\ ki_new_knots' = <<>> /\ ki_new_levels' = <<>> /\ ki_wrote' = {}
    /\ UNCHANGED <<ki_p, ki_tlevel>>
    /\ UNCHANGED <<varsFS, varsAE, varsEN, varsDC, varsRT, varsUK, varsWS, varsEC, varsNK, varsTF, varsFV, varsWD, varsCI>>

KI_Next == KI_Call \/ KI_Curve \/ KI_NextDim \/ KI_Return

\* ------------------------------------------------------ knot initialisation
\* Knots and uniform_knots_impl_structured, for structured input

\* x < y for fractions with positive denominators
FLess(x, y) == x[1] * y[2] < y[1] * x[2]

UK_Idle ==
    /\ uk_pc = "idle" /\ uk_curve = FALSE /\ uk_p = <<>> /\ uk_nctrl = <<>>
    /\ uk_params = <<>> /\ uk_knots = <<>> /\ uk_idxs = <<>>
    /\ uk_k = 0 /\ uk_j = 0 /\ uk_param_idx = 0

\* the parameters of the input samples of one dimension: increasing from 0 to 1
UK_ParamGrids ==
    { s \in UNION { [1..n -> 0..KnotMax] : n \in 2..(KnotMax + 1) } :
        /\ s[1] = 0 /\ s[Len(s)] = KnotMax
        /\ \A i \in 1..(Len(s) - 1) : s[i] < s[i + 1] }

\* an entry of all_knot_param_idxs that knot initialisation has not assigned
UK_None == 0 - 1

\* the tmesh before the knots are computed: knots and param indices allocated
UK_Init ==
    /\ uk_curve \in BOOLEAN
    /\ \E d \in 1..MaxDim :
          /\ uk_p \in [Dims(d) -> 1..MaxP]
          /\ uk_nctrl \in [Dims(d) -> 2..(MaxP + UkMaxSpans)]
          /\ uk_params \in [Dims(d) -> UK_ParamGrids]
    /\ \A k \in DOMAIN uk_p :
          /\ uk_nctrl[k] > uk_p[k]
          /\ uk_nctrl[k] - uk_p[k] <= UkMaxSpans
          /\ uk_curve => uk_nctrl[k] <= Len(uk_params[k])
    /\ uk_knots = [k \in DOMAIN uk_p |-> [i \in 1..(uk_nctrl[k] + uk_p[k] + 1) |-> Unset[1]]]
    /\ uk_idxs = [k \in DOMAIN uk_p |-> [i \in 1..(uk_nctrl[k] + uk_p[k] + 1) |-> UK_None]]
    /\ uk_pc = IF uk_curve THEN "internal" ELSE "external"
    /\ uk_k = 0 /\ uk_j = 1 /\ uk_param_idx = 0

RECURSIVE UK_Advance_Inclusive(_, _, _)
\* the while loop of the internal knots with <= in place of <
UK_Advance_Inclusive(params, param_idx, knot) ==
    IF ~FLess(knot, FInt(At(params, param_idx)))
    THEN UK_Advance_Inclusive(params, param_idx + 1, knot)
    ELSE param_idx

RECURSIVE UK_Advance(_, _, _)
\* while (params[k][param_idx] < knot) param_idx++
UK_Advance(params, param_idx, knot) ==
    IF FLess(FInt(At(params, param_idx)), knot)
    THEN UK_Advance(params, param_idx + 1, knot)
    ELSE param_idx

\* uniform_knots_impl_structured: knots[p + j] = knots[p + j - 1] + step
UK_UniformKnot(knots, p, nctrl, j) ==
    FAdd(At(knots, p + j - 1), Frac(KnotMax, nctrl - p))

\* Knots: d = (ndom_pts - 1) / (nctrl_pts - p), i and a the integer and the
\* fractional part of j * d, knot = (1 - a) * params[i] + a * params[i + 1]
UK_CurveKnot(params, p, nctrl, j) ==
    LET jd == Frac(j * (Len(params) - 1), nctrl - p)
        i  == jd[1] \div jd[2]
        a  == FAdd(jd, FInt(0 - i))
    IN  FAdd(FMul(FAdd(FInt(1), FMul(FInt(0 - 1), a)), FInt(At(params, i))),
             FMul(a, FInt(At(params, i + 1))))

\* the loop that sets the p + 1 external knots at each end of dimension k
UK_External ==
    /\ uk_pc = "external"
    /\ LET k      == uk_k + 1
           p      == uk_p[k]
           nknots == uk_nctrl[k] + p + 1
       IN  /\ uk_knots' = [uk_knots EXCEPT ![k] =
                  [i \in 1..nknots |->
                      IF i - 1 <= p THEN FInt(0)
                      ELSE IF i - 1 >= nknots - 1 - p THEN FInt(KnotMax)
                      ELSE uk_knots[k][i]]]
           /\ uk_idxs' = [uk_idxs EXCEPT ![k] =
                  [i \in 1..nknots |->
                      IF i - 1 >= nknots - 1 - p THEN Len(uk_params[k]) - 1
                      ELSE uk_idxs[k][i]]]
    /\ IF ~uk_curve
       THEN uk_pc' = "internal" /\ uk_k' = uk_k /\ uk_j' = 1 /\ uk_param_idx' = 0
       ELSE IF uk_k + 1 < Len(uk_p)
            THEN uk_pc' = "internal" /\ uk_k' = uk_k + 1 /\ uk_j' = 1 /\ uk_param_idx' = 0
            ELSE uk_pc' = "done" /\ UNCHANGED <<uk_k, uk_j, uk_param_idx>>
    /\ UNCHANGED <<uk_curve, uk_p, uk_nctrl, uk_params>>
    /\ UNCHANGED <<varsFS, varsAE, varsEN, varsDC, varsRT, varsKI, varsWS, varsEC, varsNK, varsTF, varsFV, varsWD, varsCI>>

\* one pass of the loop over the internal knots of dimension k
UK_Internal ==
    /\ uk_pc = "internal"
    /\ uk_j <= uk_nctrl[uk_k + 1] - uk_p[uk_k + 1] - 1
    /\ LET k    == uk_k + 1
           p    == uk_p[k]
           knot == IF uk_curve THEN UK_CurveKnot(uk_params[k], p, uk_nctrl[k], uk_j)
                   ELSE UK_UniformKnot(uk_knots[k], p, uk_nctrl[k], uk_j)
           idx  == UK_Advance(uk_params[k], uk_param_idx, knot)
       IN  /\ uk_knots' = [uk_knots EXCEPT ![k][p + uk_j + 1] = knot]
           /\ uk_param_idx' = idx
           /\ uk_idxs' = [uk_idxs EXCEPT ![k][p + uk_j + 1] = idx]
    /\ uk_j' = uk_j + 1
    /\ UNCHANGED <<uk_pc, uk_curve, uk_p, uk_nctrl, uk_params, uk_k>>
    /\ UNCHANGED <<varsFS, varsAE, varsEN, varsDC, varsRT, varsKI, varsWS, varsEC, varsNK, varsTF, varsFV, varsWD, varsCI>>

\* the loop over the internal knots of dimension k ends
UK_InternalEnd ==
    /\ uk_pc = "internal"
    /\ uk_j > uk_nctrl[uk_k + 1] - uk_p[uk_k + 1] - 1
    /\ IF uk_curve
       THEN uk_pc' = "external" /\ UNCHANGED <<uk_k, uk_j, uk_param_idx>>
       ELSE IF uk_k + 1 < Len(uk_p)
            THEN uk_pc' = "external" /\ uk_k' = uk_k + 1 /\ UNCHANGED <<uk_j, uk_param_idx>>
            ELSE uk_pc' = "done" /\ UNCHANGED <<uk_k, uk_j, uk_param_idx>>
    /\ UNCHANGED <<uk_curve, uk_p, uk_nctrl, uk_params, uk_knots, uk_idxs>>
    /\ UNCHANGED <<varsFS, varsAE, varsEN, varsDC, varsRT, varsKI, varsWS, varsEC, varsNK, varsTF, varsFV, varsWD, varsCI>>

UK_Next == UK_External \/ UK_Internal \/ UK_InternalEnd

(***************************************************************************)
(* The weighted flag on its way from the caller to the weight solver:      *)
(* FixedEncode and AdaptiveEncode (through NewKnots_full) call Encode,     *)
(* Encode calls CtrlCurve for every curve of every dimension, CtrlCurve    *)
(* calls Weights.  Weights are "ones" (all 1) or "solved".                 *)
(***************************************************************************)
WS_Idle ==
    /\ ws_pc = "idle" /\ ws_entry = "none" /\ ws_caller = FALSE /\ ws_weighted = FALSE
    /\ ws_d = 0 /\ ws_ncurves = 0 /\ ws_k = 0 /\ ws_j = 0
    /\ ws_invoked = {} /\ ws_out = <<>>

WS_Init ==
    /\ ws_pc = "call"
    /\ ws_entry \in {"FixedEncode", "AdaptiveEncode"}
    /\ ws_caller \in BOOLEAN
    /\ ws_weighted = FALSE
    /\ ws_d \in 1..EncMaxDim
    /\ ws_ncurves \in 1..WsMaxCurves
    /\ ws_k = 0 /\ ws_j = 0
    /\ ws_invoked = {} /\ ws_out = <<>>

\* the default argument of the parameter weighted of Encode
Encode_weighted_Default == TRUE

\* FixedEncode: t.weights = Ones; encoder.Encode(t.nctrl_pts, t.ctrl_pts, t.weights, weighted)
WS_FixedEncode ==
    /\ ws_pc = "call" /\ ws_entry = "FixedEncode"
    /\ ws_weighted' = ws_caller
    /\ ws_out' = [j \in 1..ws_ncurves |-> "ones"]
    /\ ws_pc' = "curves"
    /\ UNCHANGED <<ws_entry, ws_caller, ws_d, ws_ncurves, ws_k, ws_j, ws_invoked>>
    /\ UNCHANGED <<varsFS, varsAE, varsEN, varsDC, varsRT, varsKI, varsUK, varsEC, varsNK, varsTF, varsFV, varsWD, varsCI>>

\* AdaptiveEncode(err_limit, weighted, ...) calls NewKnots_full(err_limit, extents, iter),
\* which calls Encode(nctrl_pts, ctrl_pts, weights): the flag is not handed on
WS_AdaptiveEncode ==
    /\ ws_pc = "call" /\ ws_entry = "AdaptiveEncode"
    /\ ws_weighted' = Encode_weighted_Default
    /\ ws_out' = [j \in 1..ws_ncurves |-> "ones"]
    /\ ws_pc' = "curves"
    /\ UNCHANGED <<ws_entry, ws_caller, ws_d, ws_ncurves, ws_k, ws_j, ws_invoked>>
    /\ UNCHANGED <<varsFS, varsAE, varsEN, varsDC, varsRT, varsKI, varsUK, varsEC, varsNK, varsTF, varsFV, varsWD, varsCI>>

\* CtrlCurve: whether Weights is invoked for a curve of dimension k
CtrlCurve_Solves(weighted, k, d) == weighted /\ k = d - 1

\* CtrlCurve of curve ws_j of dimension ws_k: temp_weights = Ones, Weights may replace
\* them (it leaves ones when it finds no positive weights); in the last dimension
\* temp_weights are copied to the output weights
WS_CtrlCurve ==
    /\ ws_pc = "curves" /\ ws_j < ws_ncurves
    /\ \E temp_weights \in
            IF CtrlCurve_Solves(ws_weighted, ws_k, ws_d) THEN {"ones", "solved"} ELSE {"ones"} :
        ws_out' = IF ws_k = ws_d - 1 THEN [ws_out EXCEPT ![ws_j + 1] = temp_weights]
                  ELSE ws_out
    /\ ws_invoked' = IF CtrlCurve_Solves(ws_weighted, ws_k, ws_d)
                     THEN ws_invoked \cup {<<ws_k, ws_j>>} ELSE ws_invoked
    /\ ws_j' = ws_j + 1
    /\ UNCHANGED <<ws_pc, ws_entry, ws_caller, ws_weighted, ws_d, ws_ncurves, ws_k>>
    /\ UNCHANGED <<varsFS, varsAE, varsEN, varsDC, varsRT, varsKI, varsUK, varsEC, varsNK, varsTF, varsFV, varsWD, varsCI>>

\* Encode: the next dimension, or the end of Encode after the last one
WS_NextDim ==
    /\ ws_pc = "curves" /\ ws_j = ws_ncurves
    /\ IF ws_k + 1 < ws_d
       THEN ws_k' = ws_k + 1 /\ ws_j' = 0 /\ UNCHANGED ws_pc
       ELSE ws_pc' = "done" /\ UNCHANGED <<ws_k, ws_j>>
    /\ UNCHANGED <<ws_entry, ws_caller, ws_weighted, ws_d, ws_ncurves, ws_invoked, ws_out>>
    /\ UNCHANGED <<varsFS, varsAE, varsEN, varsDC, varsRT, varsKI, varsUK, varsEC, varsNK, varsTF, varsFV, varsWD, varsCI>>

WS_Next == WS_FixedEncode \/ WS_AdaptiveEncode \/ WS_CtrlCurve \/ WS_NextDim

(***************************************************************************)
(* ErrorCurve: the spans of a curve to be split.  Knots and parameters are *)
(* integers in 0..KnotMax (the value v stands for v / KnotMax); indices    *)
(* are 0-based as in the code.                                             *)
(***************************************************************************)
EC_Idle ==
    /\ ec_pc = "idle" /\ ec_p = 0 /\ ec_knots = <<>> /\ ec_params = <<>> /\ ec_err = <<>>
    /\ ec_i = 0 /\ ec_span = 0 /\ ec_err_spans = {} /\ ec_nerr = 0 /\ ec_examined = {}

\* knot vectors with p + 1 repeated knots at each end and distinct knots between
EC_Knots(p, nctrl) ==
    { k \in ClampedKnots(p, nctrl) :
        \A i \in (p + 1)..nctrl : k[i] < k[i + 1] }

EC_Init ==
    /\ ec_pc = "loop"
    /\ ec_p \in 0..MaxP
    /\ \E nctrl \in (ec_p + 1)..MaxCtrl : ec_knots \in EC_Knots(ec_p, nctrl)
    /\ ec_params \in UK_ParamGrids
    /\ ec_err \in [1..Len(ec_params) -> BOOLEAN]
    /\ ec_i = 0
    /\ ec_span = ec_p
    /\ ec_err_spans = {} /\ ec_nerr = 0 /\ ec_examined = {}

\* while (all_knots[k][span + 1] < 1.0 && all_knots[k][span + 1] <= params[k][i]) span++
RECURSIVE EC_AdvanceSpan(_, _, _)
EC_AdvanceSpan(knots, u, span) ==
    IF Knot(knots, span + 1) < KnotMax /\ Knot(knots, span + 1) <= u
    THEN EC_AdvanceSpan(knots, u, span + 1)
    ELSE span

\* twice the middle of the span
EC_Mid2(knots, span) == Knot(knots, span) + Knot(knots, span + 1)

\* for (j = i; params[j] >= all_knots[span]; j--) if (params[j] < mid) {split_left = true; break}
\* result: <<split_left, indices j read>>; a read outside params ends the scan
RECURSIVE EC_SplitLeft(_, _, _, _)
EC_SplitLeft(params, knots, span, j) ==
    IF j < 0 \/ j >= Len(params) THEN <<FALSE, {j}>>
    ELSE IF ~(params[j + 1] >= Knot(knots, span)) THEN <<FALSE, {j}>>
    ELSE IF 2 * params[j + 1] < EC_Mid2(knots, span) THEN <<TRUE, {j}>>
    ELSE LET r == EC_SplitLeft(params, knots, span, j - 1) IN <<r[1], r[2] \cup {j}>>

\* for (j = i; params[j] < all_knots[span + 1]; j++) if (params[j] >= mid) {split_right = true; break}
RECURSIVE EC_SplitRight(_, _, _, _)
EC_SplitRight(params, knots, span, j) ==
    IF j < 0 \/ j >= Len(params) THEN <<FALSE, {j}>>
    ELSE IF ~(params[j + 1] < Knot(knots, span + 1)) THEN <<FALSE, {j}>>
    ELSE IF 2 * params[j + 1] >= EC_Mid2(knots, span) THEN <<TRUE, {j}>>
    ELSE LET r == EC_SplitRight(params, knots, span, j + 1) IN <<r[1], r[2] \cup {j}>>

\* one iteration of the loop over the input points of the curve
EC_Point ==
    /\ ec_pc = "loop" /\ ec_i < Len(ec_params)
    /\ LET span == EC_AdvanceSpan(ec_knots, ec_params[ec_i + 1], ec_span)
           l == EC_SplitLeft(ec_params, ec_knots, span, ec_i)
           r == EC_SplitRight(ec_params, ec_knots, span, ec_i)
       IN /\ ec_span' = span
          /\ IF ec_err[ec_i + 1]
             THEN /\ ec_nerr' = ec_nerr + 1
                  /\ IF span \notin ec_err_spans
                     THEN /\ ec_examined' = ec_examined \cup l[2] \cup r[2]
                          /\ ec_err_spans' = IF l[1] /\ r[1] THEN ec_err_spans \cup {span}
                                             ELSE ec_err_spans
                     ELSE UNCHANGED <<ec_examined, ec_err_spans>>
             ELSE UNCHANGED <<ec_nerr, ec_examined, ec_err_spans>>
    /\ ec_i' = ec_i + 1
    /\ UNCHANGED <<ec_pc, ec_p, ec_knots, ec_params, ec_err>>
    /\ UNCHANGED <<varsFS, varsAE, varsEN, varsDC, varsRT, varsKI, varsUK, varsWS, varsNK, varsTF, varsFV, varsWD, varsCI>>

\* return nerr
EC_Return ==
    /\ ec_pc = "loop" /\ ec_i = Len(ec_params)
    /\ ec_pc' = "done"
    /\ UNCHANGED <<ec_p, ec_knots, ec_params, ec_err, ec_i, ec_span, ec_err_spans, ec_nerr,
                   ec_examined>>
    /\ UNCHANGED <<varsFS, varsAE, varsEN, varsDC, varsRT, varsKI, varsUK, varsWS, varsNK, varsTF, varsFV, varsWD, varsCI>>

EC_Next == EC_Point \/ EC_Return

(***************************************************************************)
(* NewKnots_full: the loop that appends a tensor for every tensor present  *)
(* before the round.  Indices are 0-based as in the code; a tensor is a    *)
(* record of its knot_mins and knot_maxs, one entry per dimension.         *)
(***************************************************************************)
NK_Unassigned == 0 - 1

NK_Idle ==
    /\ nk_pc = "idle" /\ nk_p = <<>> /\ nk_nknots = <<>> /\ nk_ins = <<>> /\ nk_tensors = <<>>
    /\ nk_i = 0 /\ nk_j = 0 /\ nk_k = 0 /\ nk_knot_mins = <<>> /\ nk_knot_maxs = <<>>
    /\ nk_min_idx = NK_Unassigned /\ nk_max_idx = NK_Unassigned
    /\ nk_subs = {} /\ nk_unassigned = FALSE /\ nk_appended = <<>>

\* sequences of at most NkMaxIns distinct elements of S
NK_Seqs(S) ==
    { q \in UNION { [1..n -> S] : n \in 0..NkMaxIns } :
        \A a, b \in DOMAIN q : a # b => q[a] # q[b] }

\* the range an earlier round gives the tensor it appends for the inserted knot idx
NK_Expand(idx, p) == <<idx - (p - 1), idx + p - 1>>

\* the state after FirstErrorSpan: the tensor of set_knots over all knots, possibly a
\* tensor of an earlier round, and the indices of the knots inserted in this round
\* (interior knots of the clamped knot vector)
NK_Init ==
    /\ nk_pc = "knots"
    /\ \E d \in 1..MaxDim :
        /\ nk_p \in [1..d -> 1..MaxP]
        /\ nk_nknots \in [1..d -> 5..NkMaxKnots]
        /\ \A j \in 1..d : nk_nknots[j] >= 2 * nk_p[j] + 3
        /\ nk_ins \in [1..d -> NK_Seqs(2..(NkMaxKnots - 3))]
        /\ \A j \in 1..d : \A k \in DOMAIN nk_ins[j] :
                nk_p[j] + 1 <= nk_ins[j][k] /\ nk_ins[j][k] <= nk_nknots[j] - nk_p[j] - 2
        /\ \E earlier \in [1..d -> 2..(NkMaxKnots - 3)] :
            /\ \A j \in 1..d :
                    nk_p[j] + 1 <= earlier[j] /\ earlier[j] <= nk_nknots[j] - nk_p[j] - 2
            /\ LET first == [knot_mins |-> [j \in 1..d |-> 0],
                             knot_maxs |-> [j \in 1..d |-> nk_nknots[j] - 1]]
                   second == [knot_mins |-> [j \in 1..d |-> NK_Expand(earlier[j], nk_p[j])[1]],
                              knot_maxs |-> [j \in 1..d |-> NK_Expand(earlier[j], nk_p[j])[2]]]
               IN  nk_tensors \in {<<first>>, <<first, second>>}
        /\ nk_knot_mins = [j \in 1..d |-> 0]
        /\ nk_knot_maxs = [j \in 1..d |-> 0]
    /\ nk_i = 0 /\ nk_j = 0 /\ nk_k = 0
    /\ nk_min_idx = NK_Unassigned /\ nk_max_idx = NK_Unassigned
    /\ nk_subs = {} /\ nk_unassigned = FALSE /\ nk_appended = <<>>

\* the subscript of t.knot_mins and t.knot_maxs in the test of the inserted knot k of
\* dimension j
NK_Subscript(j, k) == k

\* inserted_knot_idxs[j][k] - 1 >= t.knot_mins[s] && inserted_knot_idxs[j][k] <= t.knot_maxs[s];
\* a subscript outside the vectors reads any value: the test has either outcome
NK_Inside(t, s, idx) ==
    IF s < Len(t.knot_mins)
    THEN {idx - 1 >= t.knot_mins[s + 1] /\ idx <= t.knot_maxs[s + 1]}
    ELSE BOOLEAN

\* idx < min_idx, idx > max_idx: an unassigned variable holds any value
NK_Less(idx, min_idx) == IF min_idx = NK_Unassigned THEN BOOLEAN ELSE {idx < min_idx}

NK_Greater(idx, max_idx) == IF max_idx = NK_Unassigned THEN BOOLEAN ELSE {idx > max_idx}

\* one iteration of the loop over the inserted knots of dimension j
NK_Knot ==
    /\ nk_pc = "knots" /\ nk_i < Len(nk_tensors) /\ nk_j < Len(nk_p)
    /\ nk_k < Len(nk_ins[nk_j + 1])
    /\ LET t == nk_tensors[nk_i + 1]
           idx == nk_ins[nk_j + 1][nk_k + 1]
           s == NK_Subscript(nk_j, nk_k)
       IN  /\ nk_subs' = nk_subs \cup {<<nk_j, s>>}
           /\ \E inside \in NK_Inside(t, s, idx) :
                IF inside
                THEN \E less \in NK_Less(idx, nk_min_idx), greater \in NK_Greater(idx, nk_max_idx) :
                        /\ nk_unassigned' = (nk_unassigned \/
                                (nk_k # 0 /\ (nk_min_idx = NK_Unassigned \/
                                              nk_max_idx = NK_Unassigned)))
                        /\ IF nk_k = 0 \/ less
                           THEN /\ nk_knot_mins' = [nk_knot_mins EXCEPT
                                                      ![nk_j + 1] = idx - (nk_p[nk_j + 1] - 1)]
                                /\ nk_min_idx' = idx
                           ELSE UNCHANGED <<nk_knot_mins, nk_min_idx>>
                        /\ IF nk_k = 0 \/ greater
                           THEN /\ nk_knot_maxs' = [nk_knot_maxs EXCEPT
                                                      ![nk_j + 1] = idx + nk_p[nk_j + 1] - 1]
                                /\ nk_max_idx' = idx
                           ELSE UNCHANGED <<nk_knot_maxs, nk_max_idx>>
                ELSE UNCHANGED <<nk_unassigned, nk_knot_mins, nk_knot_maxs, nk_min_idx,
                                 nk_max_idx>>
    /\ nk_k' = nk_k + 1
    /\ UNCHANGED <<nk_pc, nk_p, nk_nknots, nk_ins, nk_tensors, nk_i, nk_j, nk_appended>>
    /\ UNCHANGED <<varsFS, varsAE, varsEN, varsDC, varsRT, varsKI, varsUK, varsWS, varsEC, varsTF, varsFV, varsWD, varsCI>>

\* the end of the loop over the inserted knots of dimension j: the next dimension,
\* with min_idx and max_idx declared anew
NK_NextDim ==
    /\ nk_pc = "knots" /\ nk_i < Len(nk_tensors) /\ nk_j < Len(nk_p)
    /\ nk_k = Len(nk_ins[nk_j + 1])
    /\ nk_j' = nk_j + 1 /\ nk_k' = 0
    /\ nk_min_idx' = NK_Unassigned /\ nk_max_idx' = NK_Unassigned
    /\ UNCHANGED <<nk_pc, nk_p, nk_nknots, nk_ins, nk_tensors, nk_i, nk_knot_mins,
                   nk_knot_maxs, nk_subs, nk_unassigned, nk_appended>>
    /\ UNCHANGED <<varsFS, varsAE, varsEN, varsDC, varsRT, varsKI, varsUK, varsWS, varsEC, varsTF, varsFV, varsWD, varsCI>>

\* mfa.tmesh.append_tensor(knot_mins, knot_maxs) after the loop over the dimensions,
\* and the next tensor
NK_Append ==
    /\ nk_pc = "knots" /\ nk_i < Len(nk_tensors) /\ nk_j = Len(nk_p)
    /\ nk_appended' = Append(nk_appended, [parent |-> nk_i, knot_mins |-> nk_knot_mins,
                                           knot_maxs |-> nk_knot_maxs])
    /\ nk_i' = nk_i + 1 /\ nk_j' = 0 /\ nk_k' = 0
    /\ UNCHANGED <<nk_pc, nk_p, nk_nknots, nk_ins, nk_tensors, nk_knot_mins, nk_knot_maxs,
                   nk_min_idx, nk_max_idx, nk_subs, nk_unassigned>>
    /\ UNCHANGED <<varsFS, varsAE, varsEN, varsDC, varsRT, varsKI, varsUK, varsWS, varsEC, varsTF, varsFV, varsWD, varsCI>>

\* the end of the loop over the tensors
NK_Return ==
    /\ nk_pc = "knots" /\ nk_i = Len(nk_tensors)
    /\ nk_pc' = "done"
    /\ UNCHANGED <<nk_p, nk_nknots, nk_ins, nk_tensors, nk_i, nk_j, nk_k, nk_knot_mins,
                   nk_knot_maxs, nk_min_idx, nk_max_idx, nk_subs, nk_unassigned, nk_appended>>
    /\ UNCHANGED <<varsFS, varsAE, varsEN, varsDC, varsRT, varsKI, varsUK, varsWS, varsEC, varsTF, varsFV, varsWD, varsCI>>

NK_Next == NK_Knot \/ NK_NextDim \/ NK_Append \/ NK_Return

(***************************************************************************)
(* FindSpan(cur_dim, u, tensor), the T-mesh version: the binary search of  *)
(* the span and the walk to the left over knots of a finer level.          *)
(***************************************************************************)
TF_NoRet == 0 - 2

TF_NoTensor == [knot_mins |-> 0, knot_maxs |-> 0, nctrl_pts |-> 0, level |-> 0]

TF_Idle ==
    /\ tf_pc = "idle" /\ tf_p = 0 /\ tf_knots = <<>> /\ tf_levels = <<>>
    /\ tf_tensor = TF_NoTensor /\ tf_u = 0
    /\ tf_low = 0 /\ tf_high = 0 /\ tf_mid = 0 /\ tf_span = 0 /\ tf_ret = TF_NoRet

\* levels of the knots: the p + 1 knots at each end belong to the initial knots of
\* level 0, the knots between have the level of the tensor they were inserted into
TF_Levels(p, nknots) ==
    { l \in [1..nknots -> 0..TfMaxLevel] :
        \A i \in 1..nknots : (i <= p + 1 \/ i >= nknots - p) => l[i] = 0 }

\* a tensor over the whole knot vector of the dimension, of any level
TF_Init ==
    /\ tf_pc = "call"
    /\ tf_p \in 0..MaxP
    /\ \E nctrl \in (tf_p + 1)..MaxCtrl :
        /\ tf_knots \in EC_Knots(tf_p, nctrl)
        /\ tf_levels \in TF_Levels(tf_p, nctrl + tf_p + 1)
        /\ \E level \in 0..TfMaxLevel :
            tf_tensor = [knot_mins |-> 0, knot_maxs |-> nctrl + tf_p,
                         nctrl_pts |-> nctrl, level |-> level]
    /\ tf_u \in (0 - 1)..(KnotMax + 1)
    /\ tf_low = 0 /\ tf_high = 0 /\ tf_mid = 0 /\ tf_span = 0 /\ tf_ret = TF_NoRet

\* u is in the min,max range of the knots of the tensor
TF_InRange(knots, tensor, u) ==
    ~(u < Knot(knots, tensor.knot_mins) \/ u > Knot(knots, tensor.knot_maxs))

\* the entry of FindSpan: the range test, the test for the end of the knot vector,
\* the initialisation of the binary search
TF_Call ==
    /\ tf_pc = "call"
    /\ IF ~TF_InRange(tf_knots, tf_tensor, tf_u)
       THEN tf_ret' = 0 - 1 /\ tf_pc' = "done" /\ UNCHANGED <<tf_low, tf_high, tf_mid>>
       ELSE IF tf_u = Knot(tf_knots, tf_tensor.nctrl_pts)
       THEN /\ tf_ret' = IF Knot(tf_levels, tf_tensor.nctrl_pts) # tf_tensor.level
                         THEN 0 - 1 ELSE tf_tensor.nctrl_pts - 1
            /\ tf_pc' = "done"
            /\ UNCHANGED <<tf_low, tf_high, tf_mid>>
       ELSE /\ tf_low' = tf_p
            /\ tf_high' = tf_tensor.nctrl_pts
            /\ tf_mid' = (tf_p + tf_tensor.nctrl_pts) \div 2
            /\ tf_pc' = "search"
            /\ UNCHANGED tf_ret
    /\ UNCHANGED <<tf_p, tf_knots, tf_levels, tf_tensor, tf_u, tf_span>>
    /\ UNCHANGED <<varsFS, varsAE, varsEN, varsDC, varsRT, varsKI, varsUK, varsWS, varsEC, varsNK, varsFV, varsWD, varsCI>>

\* one iteration of the binary search
TF_Search ==
    /\ tf_pc = "search"
    /\ FS_LoopCond(tf_knots, tf_u, tf_mid)
    /\ LET low == IF tf_u < Knot(tf_knots, tf_mid) THEN tf_low ELSE tf_mid
           high == IF tf_u < Knot(tf_knots, tf_mid) THEN tf_mid ELSE tf_high
       IN  tf_low' = low /\ tf_high' = high /\ tf_mid' = (low + high) \div 2
    /\ UNCHANGED <<tf_pc, tf_p, tf_knots, tf_levels, tf_tensor, tf_u, tf_span, tf_ret>>
    /\ UNCHANGED <<varsFS, varsAE, varsEN, varsDC, varsRT, varsKI, varsUK, varsWS, varsEC, varsNK, varsFV, varsWD, varsCI>>

\* the end of the binary search
TF_Found ==
    /\ tf_pc = "search"
    /\ ~FS_LoopCond(tf_knots, tf_u, tf_mid)
    /\ tf_span' = tf_mid
    /\ tf_pc' = "walk"
    /\ UNCHANGED <<tf_p, tf_knots, tf_levels, tf_tensor, tf_u, tf_low, tf_high, tf_mid, tf_ret>>
    /\ UNCHANGED <<varsFS, varsAE, varsEN, varsDC, varsRT, varsKI, varsUK, varsWS, varsEC, varsNK, varsFV, varsWD, varsCI>>

\* while (all_knot_levels[cur_dim][mid] > tensor.level && mid > 0)
TF_WalkCond(levels, level, mid) == Knot(levels, mid) > level /\ mid > 0

\* mid--
TF_Walk ==
    /\ tf_pc = "walk"
    /\ TF_WalkCond(tf_levels, tf_tensor.level, tf_mid)
    /\ tf_mid' = tf_mid - 1
    /\ UNCHANGED <<tf_pc, tf_p, tf_knots, tf_levels, tf_tensor, tf_u, tf_low, tf_high, tf_span,
                   tf_ret>>
    /\ UNCHANGED <<varsFS, varsAE, varsEN, varsDC, varsRT, varsKI, varsUK, varsWS, varsEC, varsNK, varsFV, varsWD, varsCI>>

\* the level test after the walk, and the return
TF_Return ==
    /\ tf_pc = "walk"
    /\ ~TF_WalkCond(tf_levels, tf_tensor.level, tf_mid)
    /\ tf_ret' = IF Knot(tf_levels, tf_mid) # tf_tensor.level THEN 0 - 1 ELSE tf_mid
    /\ tf_pc' = "done"
    /\ UNCHANGED <<tf_p, tf_knots, tf_levels, tf_tensor, tf_u, tf_low, tf_high, tf_mid, tf_span>>
    /\ UNCHANGED <<varsFS, varsAE, varsEN, varsDC, varsRT, varsKI, varsUK, varsWS, varsEC, varsNK, varsFV, varsWD, varsCI>>

TF_Next == TF_Call \/ TF_Search \/ TF_Found \/ TF_Walk \/ TF_Return

(***************************************************************************)
(* FastVolPt and FastGrad: the decoder of a single tensor without weights  *)
(* by k-mode vector products, with the scratch vectors of FastDecodeInfo.  *)
(* FastVolPt is modelled with its values, FastGrad with the elements of    *)
(* di.t and di.td it accesses.  Vectors are 0-based as in the code.        *)
(***************************************************************************)
FV_Idle ==
    /\ fv_pc = "idle" /\ fv_op = "none" /\ fv_p = <<>> /\ fv_nctrl = <<>> /\ fv_ctrl = <<>>
    /\ fv_param = <<>> /\ fv_N = <<>> /\ fv_span = <<>> /\ fv_t = <<>> /\ fv_k = 0
    /\ fv_acc = {} /\ fv_out = NaN

\* Decoder::Decoder: q[i] = p(i) + 1
Decoder_q(p) == [i \in DOMAIN p |-> p[i] + 1]

\* Decoder::Decoder: tot_iters
Decoder_tot_iters(p) == Prod(Decoder_q(p))

RECURSIVE Decoder_ds(_, _)
\* Decoder::Decoder: ds[0] = 1, ds[i] = ds[i - 1] * q[i]
Decoder_ds(p, i) == IF i = 0 THEN 1 ELSE Decoder_ds(p, i - 1) * Decoder_q(p)[i + 1]

\* Decoder::Decoder: ct(m, j), the coordinate of iteration m in dimension j
Decoder_ct(p, m, j) ==
    (m \div Prod([l \in 1..j |-> Decoder_q(p)[l]])) % Decoder_q(p)[j + 1]

\* Decoder::Decoder: jumps = ct * cs
Decoder_jumps(p, nctrl, m) ==
    SumSeq([j \in 1..Len(p) |-> Decoder_ct(p, m, j - 1) * CtrlStride(nctrl, j)])

\* FastDecodeInfo::FastDecodeInfo: the size of t[i], and of td[d][i] for every d
FastDecodeInfo_tsize(p, i) ==
    IF i = Len(p) - 1 THEN 1 ELSE Decoder_tot_iters(p) \div Decoder_ds(p, i + 1)

\* BasisFunInfo::BasisFunInfo: qmax, the size of right and left
BasisFunInfo_qmax(p) == SetMax({ Decoder_q(p)[i] : i \in DOMAIN p })

\* FastBasisFuns prints bfi.right.at(2): std::out_of_range when right has fewer
\* than 3 elements
FastBasisFuns_Throws(p) == BasisFunInfo_qmax(p) <= 2

\* FastBasisFuns: the recurrence of OrigBasisFuns computed in place in N
FastBasisFuns(knots, p, span, u) ==
    BasisFuns_Outer(knots, p, span, u, 1, [i \in 1..(p + 1) |-> IF i = 1 THEN FInt(1) ELSE FInt(0)])

\* scalar control points: one control point 1, the others 0
FV_UnitCtrl(n) == { [r \in 1..n |-> IF r = c THEN 1 ELSE 0] : c \in 1..n }

\* a decoder and a FastDecodeInfo constructed for a model of one tensor with uniform
\* knots, at the call of FastVolPt or FastGrad
FV_Init ==
    /\ fv_pc = "call"
    /\ fv_op \in {"FastVolPt", "FastGrad"}
    /\ \E d \in 1..MaxDim :
        /\ fv_p \in [1..d -> 1..MaxP]
        /\ fv_nctrl \in [1..d -> 2..FvMaxCtrl]
        /\ \A k \in 1..d : /\ fv_nctrl[k] > fv_p[k]
                           /\ KnotMax % (fv_nctrl[k] - fv_p[k]) = 0
        /\ fv_param \in [1..d -> 0..KnotMax]
    /\ fv_ctrl \in FV_UnitCtrl(Prod(fv_nctrl))
    /\ fv_N = [k \in DOMAIN fv_p |-> <<>>]
    /\ fv_span = [k \in DOMAIN fv_p |-> 0]
    /\ fv_t = [k \in DOMAIN fv_p |->
                  [i \in 1..FastDecodeInfo_tsize(fv_p, k - 1) |-> FInt(0)]]
    /\ fv_k = 0 /\ fv_acc = {} /\ fv_out = NaN

\* the loop over the dimensions at the head of FastVolPt and FastGrad: FindSpan and
\* the basis functions
FV_Call ==
    /\ fv_pc = "call"
    /\ IF fv_op = "FastVolPt" /\ FastBasisFuns_Throws(fv_p)
       THEN fv_pc' = "thrown" /\ UNCHANGED <<fv_N, fv_span>>
       ELSE /\ fv_span' = [k \in DOMAIN fv_p |->
                              FindSpan(UniformKnots(fv_p[k], fv_nctrl[k]), fv_p[k],
                                       fv_nctrl[k], fv_param[k])]
            /\ fv_N' = [k \in DOMAIN fv_p |->
                           FastBasisFuns(UniformKnots(fv_p[k], fv_nctrl[k]), fv_p[k],
                                         fv_span'[k], fv_param[k])]
            /\ fv_pc' = "first"
    /\ UNCHANGED <<fv_op, fv_p, fv_nctrl, fv_ctrl, fv_param, fv_t, fv_k, fv_acc, fv_out>>
    /\ UNCHANGED <<varsFS, varsAE, varsEN, varsDC, varsRT, varsKI, varsUK, varsWS, varsEC, varsNK, varsTF, varsWD, varsCI>>

\* start_ctrl_idx: the linear index of the first control point
FV_start_ctrl_idx(span, p, nctrl) ==
    SumSeq([j \in 1..Len(p) |-> (span[j] - p[j]) * CtrlStride(nctrl, j)])

\* the values of id in for (m = 0, id = 0; m < size; m += step, id++)
FV_Ids(size, step) == { id \in 0..size : id * step < size }

\* the arrays whose dimension k the step of dimension k accesses: di.t in FastVolPt;
\* in FastGrad di.t and di.td[0] in the first dimension, di.td[e] for every e < end_d
\* (end_d = dom_dim + 1 with out_val) in the others
FV_Arrays(op, k, d) ==
    IF op = "FastVolPt" THEN {<<"t", 0>>}
    ELSE IF k = 0 THEN {<<"t", 0>>, <<"td", 0>>}
    ELSE { <<"td", e>> : e \in 0..d }

\* the first dimension: basis functions times control points, into t[0][id] for every
\* curve id; an element past the end of t[0] is not part of t[0]
FV_First ==
    /\ fv_pc = "first"
    /\ LET q0 == Decoder_q(fv_p)[1]
           ids == FV_Ids(Decoder_tot_iters(fv_p), q0)
           start == FV_start_ctrl_idx(fv_span, fv_p, fv_nctrl)
           sum(id) == FSum([a \in 1..q0 |->
                        FMul(fv_N[1][a],
                             FInt(fv_ctrl[start + Decoder_jumps(fv_p, fv_nctrl, id * q0) + a]))])
       IN  /\ fv_t' = [fv_t EXCEPT ![1] = [i \in DOMAIN fv_t[1] |->
                                              IF i - 1 \in ids THEN sum(i - 1) ELSE fv_t[1][i]]]
           /\ fv_acc' = fv_acc \cup
                 { <<a, 0, id>> : a \in FV_Arrays(fv_op, 0, Len(fv_p)), id \in ids }
    /\ fv_k' = 1
    /\ fv_pc' = "kmode"
    /\ UNCHANGED <<fv_op, fv_p, fv_nctrl, fv_ctrl, fv_param, fv_N, fv_span, fv_out>>
    /\ UNCHANGED <<varsFS, varsAE, varsEN, varsDC, varsRT, varsKI, varsUK, varsWS, varsEC, varsNK, varsTF, varsWD, varsCI>>

\* the k-mode product of dimension k: t[k][id] from t[k - 1][m .. m + qcur - 1] with
\* m = id * qcur < tsz = t[k - 1].size(); an element read past the end of t[k - 1] has
\* any value, an element written past the end of t[k] is not part of t[k]
FV_KMode ==
    /\ fv_pc = "kmode" /\ fv_k < Len(fv_p)
    /\ LET qcur == Decoder_q(fv_p)[fv_k + 1]
           tsz == Len(fv_t[fv_k])
           ids == FV_Ids(tsz, qcur)
       IN  /\ \E stray \in {FInt(0), FInt(1)} :
                LET prev(i) == IF i < tsz THEN fv_t[fv_k][i + 1] ELSE stray
                    sum(id) == FSum([l \in 1..qcur |->
                                 FMul(fv_N[fv_k + 1][l], prev(id * qcur + l - 1))])
                IN  fv_t' = [fv_t EXCEPT ![fv_k + 1] =
                                [i \in DOMAIN fv_t[fv_k + 1] |->
                                    IF i - 1 \in ids THEN sum(i - 1) ELSE fv_t[fv_k + 1][i]]]
           /\ fv_acc' = fv_acc \cup
                 { <<a, fv_k, id>> : a \in FV_Arrays(fv_op, fv_k, Len(fv_p)), id \in ids } \cup
                 { <<a, fv_k - 1, id * qcur + l>> :
                        a \in FV_Arrays(fv_op, fv_k, Len(fv_p)), id \in ids,
                        l \in 0..(qcur - 1) }
    /\ fv_k' = fv_k + 1
    /\ UNCHANGED <<fv_pc, fv_op, fv_p, fv_nctrl, fv_ctrl, fv_param, fv_N, fv_span, fv_out>>
    /\ UNCHANGED <<varsFS, varsAE, varsEN, varsDC, varsRT, varsKI, varsUK, varsWS, varsEC, varsNK, varsTF, varsWD, varsCI>>

\* out_pt(0) = di.t[dom_dim - 1][0]
FV_Return ==
    /\ fv_pc = "kmode" /\ fv_k = Len(fv_p)
    /\ fv_out' = fv_t[Len(fv_p)][1]
    /\ fv_acc' = fv_acc \cup
            { <<a, Len(fv_p) - 1, 0>> : a \in FV_Arrays(fv_op, Len(fv_p), Len(fv_p)) }
    /\ fv_pc' = "done"
    /\ UNCHANGED <<fv_op, fv_p, fv_nctrl, fv_ctrl, fv_param, fv_N, fv_span, fv_t, fv_k>>
    /\ UNCHANGED <<varsFS, varsAE, varsEN, varsDC, varsRT, varsKI, varsUK, varsWS, varsEC, varsNK, varsTF, varsWD, varsCI>>

FV_Next == FV_Call \/ FV_First \/ FV_KMode \/ FV_Return

(***************************************************************************)
(* The decoders and the weights: a tensor of p + 1 control points in every *)
(* dimension (knots 0 .. 0 1 .. 1) with points of two coordinates, decoded *)
(* at the same parameter with two vectors of weights.  WEIGH_ALL_DIMS is   *)
(* not defined (mfa.hpp 25).                                               *)
(***************************************************************************)
WD_Idle ==
    /\ wd_pc = "idle" /\ wd_path = "none" /\ wd_p = <<>> /\ wd_ctrl = <<>> /\ wd_w = <<>>
    /\ wd_param = <<>> /\ wd_out = <<>>

\* nctrl_pts of the tensor
WD_NCtrl(p) == [k \in DOMAIN p |-> p[k] + 1]

WD_Init ==
    /\ wd_pc = "call" /\ wd_path = "none"
    /\ \E d \in 1..MaxDim :
        /\ wd_p \in [1..d -> 1..MaxP]
        /\ Prod(WD_NCtrl(wd_p)) <= WdMaxPts
        /\ wd_param \in [1..d -> 0..KnotMax]
    /\ \E c \in 1..Prod(WD_NCtrl(wd_p)) :
        wd_ctrl = [r \in 1..Prod(WD_NCtrl(wd_p)) |-> <<IF r = c THEN 1 ELSE 0, r % 2>>]
    /\ \E w \in [1..Prod(WD_NCtrl(wd_p)) -> 1..2] :
        wd_w = <<[r \in 1..Prod(WD_NCtrl(wd_p)) |-> 1], w>>
    /\ wd_out = <<>>

\* coordinate j of every control point, times its weight where weighted is true
WD_Column(ctrl, w, j, weighted) ==
    [r \in DOMAIN ctrl |-> IF weighted THEN FMul(FInt(ctrl[r][j]), FInt(w[r]))
                           ELSE FInt(ctrl[r][j])]

\* the sum of vals over the control points, each times its basis values at param
WD_Sum(p, param, vals) ==
    LET nctrl == WD_NCtrl(p)
        knots == [k \in DOMAIN p |-> UniformKnots(p[k], nctrl[k])]
        span == [k \in DOMAIN p |-> FindSpan(knots[k], p[k], nctrl[k], param[k])]
        N == [k \in DOMAIN p |-> OrigBasisFuns(knots[k], p[k], span[k], param[k])]
    IN  KI_VolSum(Len(p), 0, N, span, p, nctrl, vals)

\* VolPt and its variants with saved basis functions, weigh only range dimension:
\* temp(j) += N * ctrl_pt(j) for j < last, temp(last) += N * ctrl_pt(last) * w,
\* temp_denom += w * N; out_pt = temp, out_pt(last) /= denom
VolPt_out_pt(p, ctrl, w, param) ==
    LET denom == WD_Sum(p, param, [r \in DOMAIN ctrl |-> FInt(w[r])])
    IN  <<WD_Sum(p, param, WD_Column(ctrl, w, 1, FALSE)),
          FDiv(WD_Sum(p, param, WD_Column(ctrl, w, 2, TRUE)), denom)>>

\* VolPt_tmesh: out_pt += B * ctrl_pts.row * weights, B_sum += B * weights,
\* out_pt /= B_sum if B_sum > 0
VolPt_tmesh_out_pt(p, ctrl, w, param) ==
    LET B_sum == WD_Sum(p, param, [r \in DOMAIN ctrl |-> FInt(w[r])])
        out_pt == [j \in 1..2 |-> WD_Sum(p, param, WD_Column(ctrl, w, j, TRUE))]
    IN  IF FLess(FInt(0), B_sum) THEN [j \in 1..2 |-> FDiv(out_pt[j], B_sum)] ELSE out_pt

\* CurvePt for the curve of dimension 0 made of the first p(0) + 1 control points:
\* out_pt += N * temp_ctrl.row * temp_weights, out_pt /= denom
CurvePt_out_pt(p, ctrl, w, param) ==
    LET curve == [r \in 1..(p[1] + 1) |-> ctrl[r]]
        denom == WD_Sum(<<p[1]>>, <<param[1]>>, [r \in DOMAIN curve |-> FInt(w[r])])
    IN  [j \in 1..2 |->
            FDiv(WD_Sum(<<p[1]>>, <<param[1]>>, WD_Column(curve, w, j, TRUE)), denom)]

\* the same call with each of the two vectors of weights
WD_Outs(out) ==
    /\ wd_out' = out
    /\ wd_pc' = "done"
    /\ UNCHANGED <<wd_p, wd_ctrl, wd_w, wd_param>>
    /\ UNCHANGED <<varsFS, varsAE, varsEN, varsDC, varsRT, varsKI, varsUK, varsWS, varsEC, varsNK, varsTF, varsFV, varsCI>>

WD_VolPt ==
    /\ wd_pc = "call"
    /\ wd_path' = "VolPt"
    /\ WD_Outs([i \in 1..2 |-> VolPt_out_pt(wd_p, wd_ctrl, wd_w[i], wd_param)])

WD_VolPt_saved_basis ==
    /\ wd_pc = "call"
    /\ wd_path' = "VolPt_saved_basis"
    /\ WD_Outs([i \in 1..2 |-> VolPt_out_pt(wd_p, wd_ctrl, wd_w[i], wd_param)])

WD_VolPt_tmesh ==
    /\ wd_pc = "call"
    /\ wd_path' = "VolPt_tmesh"
    /\ WD_Outs([i \in 1..2 |-> VolPt_tmesh_out_pt(wd_p, wd_ctrl, wd_w[i], wd_param)])

WD_CurvePt ==
    /\ wd_pc = "call"
    /\ wd_path' = "CurvePt"
    /\ WD_Outs([i \in 1..2 |-> CurvePt_out_pt(wd_p, wd_ctrl, wd_w[i], wd_param)])

WD_Next == WD_VolPt \/ WD_VolPt_saved_basis \/ WD_VolPt_tmesh \/ WD_CurvePt

(***************************************************************************)
(* NewCurveKnotIns and ExistCurveKnotIns: the control points and weights   *)
(* of one curve, statement by statement.  Rows are 0-based as in the code. *)
(***************************************************************************)
CI_Idle ==
    /\ ci_pc = "idle" /\ ci_exist = FALSE /\ ci_p = 0 /\ ci_knots = <<>> /\ ci_u = 0
    /\ ci_span = 0 /\ ci_old = <<>> /\ ci_temp = <<>> /\ ci_new = <<>> /\ ci_i = 0

\* a curve with clamped knots and positive weights, and a new knot inside a span
CI_Init ==
    /\ ci_pc = "save"
    /\ ci_exist \in BOOLEAN
    /\ ci_p \in 1..MaxP
    /\ \E nctrl \in (ci_p + 1)..MaxCtrl :
        /\ ci_knots \in EC_Knots(ci_p, nctrl)
        /\ \E c \in 1..nctrl, w \in [1..nctrl -> 1..2] :
            ci_old = [r \in 1..nctrl |-> <<FInt(IF r = c THEN 1 ELSE 0), FInt(w[r])>>]
        /\ ci_u \in 1..(KnotMax - 1)
        /\ ci_span = FindSpan(ci_knots, ci_p, nctrl, ci_u)
    /\ ~CurveKnotIns_Duplicate(ci_knots, ci_span, ci_u)
    /\ ci_temp = <<>> /\ ci_new = <<>> /\ ci_i = 0

\* row r (0-based) of a matrix set to v
SetRow(rows, r, v) == [rows EXCEPT ![r + 1] = v]

RECURSIVE CI_CopyRows(_, _, _, _, _)
\* for (i = from; i <= to; i++) new.row(i + shift) = old.row(i)
CI_CopyRows(new, old, from, to, shift) ==
    IF from > to THEN new
    ELSE CI_CopyRows(SetRow(new, from + shift, At(old, from)), old, from + 1, to, shift)

\* the resize of the outputs and the three loops that save the unaltered control
\* points and weights: rows 0 .. span - p to the same row, rows span .. n - 1 one row up,
\* rows span - p .. span to temp
CI_Save ==
    /\ ci_pc = "save"
    /\ LET n == Len(ci_old)
           resized == [r \in 1..(n + 1) |-> Unset]
           first == CI_CopyRows(resized, ci_old, 0, ci_span - ci_p, 0)
       IN  ci_new' = CI_CopyRows(first, ci_old, ci_span, n - 1, 1)
    /\ ci_temp' = [i \in 1..(ci_p + 1) |-> At(ci_old, ci_span - ci_p + (i - 1))]
    /\ ci_i' = 0
    /\ ci_pc' = "insert"
    /\ UNCHANGED <<ci_exist, ci_p, ci_knots, ci_u, ci_span, ci_old>>
    /\ UNCHANGED <<varsFS, varsAE, varsEN, varsDC, varsRT, varsKI, varsUK, varsWS, varsEC, varsNK, varsTF, varsFV, varsWD>>

\* alpha of ExistCurveKnotIns: from tmesh.all_knots, which holds the new knot already, with
\* i + span + 2 in the place of i + span + 1
ExistCurveKnotIns_Alpha(old_knots, p, span, u, i) ==
    LET L == span - p + 1
        all_knots == CurveKnotIns_Knots(old_knots, span, u)
    IN  Frac(u - At(all_knots, L + i), At(all_knots, i + span + 2) - At(all_knots, L + i))

\* temp.row(i) = alpha * temp.row(i) + (1 - alpha) * temp.row(i + 1)
CI_InsertStep_Swapped(temp, alpha, i) ==
    SetRow(temp, i, CurveKnotIns_Blend(alpha, At(temp, i + 1), At(temp, i)))

\* temp.row(i) = alpha * temp.row(i + 1) + (1 - alpha) * temp.row(i)
CI_InsertStep(temp, alpha, i) ==
    SetRow(temp, i, CurveKnotIns_Blend(alpha, At(temp, i), At(temp, i + 1)))

\* one iteration of the loop that inserts the new control point
CI_Insert ==
    /\ ci_pc = "insert" /\ ci_i <= ci_p - 1
    /\ LET alpha == IF ci_exist
                    THEN ExistCurveKnotIns_Alpha(ci_knots, ci_p, ci_span, ci_u, ci_i)
                    ELSE CurveKnotIns_Alpha(ci_knots, ci_p, ci_span, ci_u, ci_i)
       IN  ci_temp' = CI_InsertStep(ci_temp, alpha, ci_i)
    /\ ci_i' = ci_i + 1
    /\ UNCHANGED <<ci_pc, ci_exist, ci_p, ci_knots, ci_u, ci_span, ci_old, ci_new>>
    /\ UNCHANGED <<varsFS, varsAE, varsEN, varsDC, varsRT, varsKI, varsUK, varsWS, varsEC, varsNK, varsTF, varsFV, varsWD>>

\* new.row(L) = temp.row(0), new.row(span) = temp.row(p - 1), and the loop that loads
\* the remaining control points, rows L + 1 .. span - 1 from temp.row(i - L)
CI_Load ==
    /\ ci_pc = "insert" /\ ci_i = ci_p
    /\ LET L == ci_span - ci_p + 1
           ends == SetRow(SetRow(ci_new, L, At(ci_temp, 0)), ci_span, At(ci_temp, ci_p - 1))
       IN  ci_new' = [r \in 1..Len(ends) |->
                         IF L + 1 <= r - 1 /\ r - 1 < ci_span THEN At(ci_temp, r - 1 - L)
                         ELSE ends[r]]
    /\ ci_pc' = "done"
    /\ UNCHANGED <<ci_exist, ci_p, ci_knots, ci_u, ci_span, ci_old, ci_temp, ci_i>>
    /\ UNCHANGED <<varsFS, varsAE, varsEN, varsDC, varsRT, varsKI, varsUK, varsWS, varsEC, varsNK, varsTF, varsFV, varsWD>>

CI_Next == CI_Save \/ CI_Insert \/ CI_Load

InitFindSpan == FS_Init /\ AE_Idle /\ EN_Idle /\ DC_Idle /\ RT_Idle /\ KI_Idle /\ UK_Idle /\ WS_Idle /\ EC_Idle /\ NK_Idle /\ TF_Idle /\ FV_Idle /\ WD_Idle /\ CI_Idle

SpecFindSpan == InitFindSpan /\ [][FS_Next]_vars

FS_InRange == Knot(fs_knots, fs_p) <= fs_u /\ fs_u <= Knot(fs_knots, fs_nctrl)

\* the loop is entered again and its body changes neither low, high nor mid:
\* every later iteration repeats this one
FS_Stuck ==
    /\ fs_pc = "loop"
    /\ FS_LoopCond(fs_knots, fs_u, fs_mid)
    /\ IF fs_u < Knot(fs_knots, fs_mid)
       THEN fs_high = fs_mid /\ FS_Mid(fs_low, fs_mid) = fs_mid
       ELSE fs_low = fs_mid /\ FS_Mid(fs_mid, fs_high) = fs_mid

\* C4: for u in the knot range [knots[p], knots[nctrl]] FindSpan returns (its
\* loop never repeats an iteration unchanged) an index i with p <= i <= nctrl-1
\* and knots[i] <= u < knots[i+1]; for u = knots[nctrl] it returns nctrl-1.
C4_FindSpanInRange ==
    /\ FS_InRange => ~FS_Stuck
    /\ (fs_pc = "done" /\ FS_InRange) =>
        /\ fs_p <= fs_ret /\ fs_ret <= fs_nctrl - 1
        /\ IF fs_u = Knot(fs_knots, fs_nctrl)
           THEN fs_ret = fs_nctrl - 1
           ELSE Knot(fs_knots, fs_ret) <= fs_u /\ fs_u < Knot(fs_knots, fs_ret + 1)

\* a search that moved a limit of the interval and returned an interior span
C4_Witness ==
    /\ fs_pc = "done" /\ FS_InRange
    /\ fs_u < Knot(fs_knots, fs_nctrl)
    /\ fs_ret > fs_p /\ fs_ret < fs_nctrl - 1
    /\ fs_high # fs_nctrl

\* C5: the binary search terminates for every u, also below knots[p] and above
\* knots[nctrl], and then returns an index clamped to [p, nctrl-1]: the loop
\* never repeats an iteration unchanged, and a finished out-of-range call
\* returned an index in [p, nctrl-1].
C5_FindSpanTerminatesClamped ==
    /\ ~FS_Stuck
    /\ (fs_pc = "done" /\ ~FS_InRange) =>
           (fs_p <= fs_ret /\ fs_ret <= fs_nctrl - 1)

\* ------------------------------------------------ AdaptiveEncode: the runs
InitAdaptive == AE_Init /\ FS_Idle /\ EN_Idle /\ DC_Idle /\ RT_Idle /\ KI_Idle /\ UK_Idle /\ WS_Idle /\ EC_Idle /\ NK_Idle /\ TF_Idle /\ FV_Idle /\ WD_Idle /\ CI_Idle

SpecAdaptive == InitAdaptive /\ [][AE_Next]_vars

\* the loop is sequential code: whenever a step is possible, one is taken
FairSpecAdaptive == SpecAdaptive /\ WF_vars(AE_Next)

\* C1: AdaptiveEncode stops at the first round that inserted no knot, and
\* after a round that did insert knots (without reaching the control-point
\* limit) it goes back for another round.
C1_StopsAtFirstEmptyRound ==
    [][ae_pc = "check" =>
          IF ae_ins = {} THEN ae_pc' = "done"
          ELSE (ae_retval # -1 => ae_pc' = "head")]_vars

\* C2: with max_rounds = 0 (no cap) AdaptiveEncode eventually terminates.
C2_Terminates == (ae_max_rounds = 0) => <>(ae_pc = "done")

\* C3: with max_rounds > 0 at most max_rounds rounds run, and once iter has
\* reached max_rounds nothing changes the T-mesh (knots, tensors, control
\* points) any more.
C3_RoundCap ==
    [][ae_max_rounds > 0 =>
          /\ ae_rounds' <= ae_max_rounds
          /\ ae_iter >= ae_max_rounds =>
                UNCHANGED <<ae_nknots, ae_ntensors, ae_t_rows, ae_t_src>>]_vars

C3_Witness ==
    /\ ae_pc = "done" /\ ae_max_rounds >= 2
    /\ ae_iter >= ae_max_rounds /\ ae_rounds = ae_max_rounds

\* C7: after every adaptive round the control points and weights of the
\* round's encode are in the tensor of the T-mesh, not only in local buffers.
C7_ResultsStoredInTensor ==
    ae_rounds > 0 => (ae_t_src = "adaptive" /\ ae_t_rows = ae_loc_rows)

\* --------------------------------------------------------- Encode: the runs
InitEncode == EN_Init /\ FS_Idle /\ AE_Idle /\ DC_Idle /\ RT_Idle /\ KI_Idle /\ UK_Idle /\ WS_Idle /\ EC_Idle /\ NK_Idle /\ TF_Idle /\ FV_Idle /\ WD_Idle /\ CI_Idle

SpecEncode == InitEncode /\ [][EN_Next]_vars

EN_Pre == \A i \in DOMAIN en_p : en_p[i] < en_nctrl[i] /\ en_nctrl[i] <= en_ndom[i]

\* C6: after Encode with p[k] < nctrl_pts[k] <= ndom_pts[k] in every dimension
\* the output holds prod nctrl_pts control points and as many weights, and
\* every one of them was written exactly once (the write positions of the
\* curves of the last dimension are pairwise distinct and cover every row).
C6_OutputWrittenOnce ==
    (en_pc = "done" /\ EN_Pre) =>
        /\ Len(en_ctrl) = Prod(en_nctrl) /\ Len(en_w) = Prod(en_nctrl)
        /\ \A r \in 1..Len(en_ctrl) : en_ctrl[r] = 1 /\ en_w[r] = 1
        /\ ~en_oob

\* a finished 3-d encode with fewer control points than input points
C6_Witness ==
    /\ en_pc = "done" /\ EN_Pre /\ Len(en_ndom) = 3
    /\ \E i \in DOMAIN en_p : en_nctrl[i] < en_ndom[i]
    /\ Len(en_ctrl) >= 8

\* C11: when nctrl_pts[k] > ndom_pts[k] in some dimension, Encode only warns
\* and completes, and every read and write of the temporary buffers and of
\* the outputs stays inside the allocated sizes.
C11_WarnOnlyStaysInBounds ==
    en_warn => (en_pc # "exit" /\ ~en_oob)

\* the buffers the curves of dimension k have read, and have written control
\* points to
EN_DimReads(k) == { a[4] : a \in { x \in en_acc : x[1] = k /\ x[3] = "r" } }

EN_DimWrites(k) ==
    { a[4] : a \in { x \in en_acc : x[1] = k /\ x[3] = "w" } } \ {"weights"}

EN_Conflict(a, b) ==
    /\ a[1] = b[1] /\ a[2] # b[2] /\ a[3] = "w"
    /\ a[4] = b[4] /\ a[5] = b[5] /\ a[4] # "outside"

FixedEncode_TensorOutputs == {"ctrl_pts", "weights"}

\* C21: during the parallel region of Encode (the curves of a dimension) no
\* part of the T-mesh is written, in particular not the control points and the
\* weights of a tensor
C21_TmeshReadOnlyInParallel ==
    \A a \in en_acc : a[3] = "w" => a[4] \notin FixedEncode_TensorOutputs

\* --------------------------------------------------------- decode: the runs
InitDecode == DC_Init /\ FS_Idle /\ AE_Idle /\ EN_Idle /\ RT_Idle /\ KI_Idle /\ UK_Idle /\ WS_Idle /\ EC_Idle /\ NK_Idle /\ TF_Idle /\ FV_Idle /\ WD_Idle /\ CI_Idle

SpecDecode == InitDecode /\ [][DC_Next]_vars

\* C8: every precondition violation (nctrl_pts[k] <= p[k] at encode, a derivs
\* vector of the wrong size, a parameter outside the tensor's knot range in
\* the T-mesh FindSpan, a Decoder constructed before any encoding) reaches the
\* caller as a failure: the process keeps running and the call does not
\* return as if it had succeeded.
C8_ViolationsSurfaceAsFailure ==
    dc_viol # "none" => (dc_proc = "running" /\ dc_outcome = "failure")

DC_DecodeOps == {"VolPt", "VolPt_saved_basis", "VolPt_tmesh", "CurvePt"}

\* C9: in every decode path, when the accumulated rational denominator is
\* zero a diagnostic is written, the output is not divided by it and stays
\* unscaled.
C9_ZeroDenomDecode ==
    (dc_op \in DC_DecodeOps /\ dc_viol = "none" /\ dc_denom = 0) =>
        (dc_diag /\ dc_divisor = -1)

\* ------------------------------------------ encode denominators: the runs
InitRational == RT_Init /\ FS_Idle /\ AE_Idle /\ EN_Idle /\ DC_Idle /\ KI_Idle /\ UK_Idle /\ WS_Idle /\ EC_Idle /\ NK_Idle /\ TF_Idle /\ FV_Idle /\ WD_Idle /\ CI_Idle

SpecRational == InitRational /\ [][RT_Next]_vars

\* C10: during encoding, whenever the per-row denominator sum_c N[r,c]*w[c] is
\* zero, 1 is used in its place, in Rationalize and in both right-hand-side
\* computations, so no row is divided by zero.
C10_EncodeDenomFallback ==
    rt_pc = "done" =>
        \A r \in 1..Len(rt_N) :
            /\ rt_rhs_div[r] # 0 /\ rt_rat_div[r] # 0
            /\ RowDenom(rt_N, rt_weights, r) = 0 =>
                   (rt_rhs_div[r] = 1 /\ rt_rat_div[r] = 1)

\* -------------------------------------------------- knot insertion: the runs
InitKnotIns ==
    KI_Init /\ FS_Idle /\ AE_Idle /\ EN_Idle /\ DC_Idle /\ RT_Idle /\ UK_Idle /\ WS_Idle /\ EC_Idle /\ NK_Idle /\ TF_Idle /\ FV_Idle /\ WD_Idle /\ CI_Idle

SpecKnotIns == InitKnotIns /\ [][KI_Next]_vars

\* the values of a vector
Range(s) == { s[i] : i \in DOMAIN s }

\* the call in progress inserts, in dimension k, a value that an existing knot
\* of the tensor's level already has
KI_DuplicateIn(k) ==
    \E i \in DOMAIN ki_knots[k] :
        ki_knots[k][i] = ki_param[k] /\ ki_levels[k][i] = ki_tlevel

\* C12: an insertion of a value equal to an existing knot value of the same
\* level, interior or the clamped end value, is rejected, and the rejected
\* call leaves knots, knot levels, control points and weights as they were.
C12_DuplicateRejected ==
    [][(ki_pc = "curves" /\ \E k \in DOMAIN ki_p : KI_DuplicateIn(k)) =>
          UNCHANGED <<ki_knots, ki_levels, ki_nctrl, ki_ctrl, ki_w>>]_vars

\* Decoder::VolPt, range coordinate: sum N * ctrl_pt * w / sum N * w
KI_VolPt(knots, p, nctrl, ctrl, w, t) ==
    LET span == [k \in DOMAIN p |-> FindSpan(knots[k], p[k], nctrl[k], t[k])]
        N    == [k \in DOMAIN p |-> OrigBasisFuns(knots[k], p[k], span[k], t[k])]
    IN  FDiv(KI_VolSum(Len(p), 0, N, span, p, nctrl, [r \in DOMAIN ctrl |-> FMul(ctrl[r], w[r])]),
             KI_VolSum(Len(p), 0, N, span, p, nctrl, w))

\* the call in progress inserts a value strictly inside a knot span in every
\* dimension
KI_StrictlyInside ==
    \A k \in DOMAIN ki_p :
        /\ 0 < ki_param[k] /\ ki_param[k] < KnotMax
        /\ ki_param[k] \notin Range(ki_knots[k])

\* C13: knot insertion preserves the model: for a new knot strictly inside a
\* span, the model evaluated at any parameter after the insertion equals the
\* model evaluated there before it.
C13_InsertionPreservesModel ==
    [][(ki_pc = "curves" /\ ki_pc' = "ready" /\ KI_StrictlyInside) =>
          \A t \in [DOMAIN ki_p -> 0..KnotMax] :
              KI_VolPt(ki_knots, ki_p, ki_nctrl, ki_ctrl, ki_w, t) =
              KI_VolPt(ki_knots', ki_p, ki_nctrl', ki_ctrl', ki_w', t)]_vars

\* the sizes of the knots, the knot levels and the tensor fit together, and
\* every control point and weight of the tensor has been written
KI_SizesConsistent ==
    /\ \A k \in DOMAIN ki_p :
          /\ Len(ki_knots[k]) = ki_nctrl[k] + ki_p[k] + 1
          /\ Len(ki_levels[k]) = Len(ki_knots[k])
    /\ Len(ki_ctrl) = Prod(ki_nctrl)
    /\ Len(ki_w) = Len(ki_ctrl)
    /\ \A r \in DOMAIN ki_ctrl : ki_ctrl[r] # Unset[1] /\ ki_w[r] # Unset[2]

\* NewKnotInsertion returns
KI_Returns == ki_pc = "curves" /\ ki_pc' = "ready"

\* C14: after construction and after every NewKnotInsertion, in every
\* dimension the knot vector has nctrl_pts + p + 1 knots and as many levels,
\* the tensor holds prod nctrl_pts control points and weights, and each
\* insertion adds exactly one to the knot count, nctrl_pts and knot_maxs of
\* every dimension
C14_SizesAfterInsertion ==
    /\ [](ki_pc = "ready" => KI_SizesConsistent)
    /\ [][KI_Returns =>
             \A k \in DOMAIN ki_p :
                 /\ Len(ki_knots'[k]) = Len(ki_knots[k]) + 1
                 /\ ki_nctrl'[k] = ki_nctrl[k] + 1
                 /\ ki_knot_maxs'[k] = ki_knot_maxs[k] + 1]_vars

\* a tensor of two dimensions after an insertion
C14_Witness ==
    ki_pc = "ready" /\ ki_nins = 1 /\ Len(ki_p) = 2 /\ Len(ki_ctrl) = 9

\* a knot vector of degree p: non-decreasing, within [0, KnotMax], p + 1 knots
\* of value 0 at the start and p + 1 knots of value KnotMax at the end
KI_Clamped(knots, p) ==
    /\ NonDecreasing(knots)
    /\ \A i \in DOMAIN knots : 0 <= knots[i] /\ knots[i] <= KnotMax
    /\ \A i \in 1..(p + 1) : knots[i] = 0 /\ knots[Len(knots) + 1 - i] = KnotMax

\* the new knot of dimension k went to index span + 1, strictly between its
\* neighbours of the old knot vector
KI_PlacedStrictlyInside(k) ==
    LET knots == ki_knots[k]
        u     == ki_param[k]
        span  == FindSpan(knots, ki_p[k], ki_nctrl[k], u)
    IN  /\ Knot(knots, span) < u /\ u < Knot(knots, span + 1)
        /\ Knot(ki_knots'[k], span + 1) = u

\* C15: every knot vector is non-decreasing within [0,1] and clamped with
\* p + 1 knots at each end, after the uniform initialisation and after every
\* accepted insertion, which places the new knot at index span + 1 with
\* knots[span] < u < knots[span + 1]
C15_KnotsClampedAndSorted ==
    /\ [](ki_pc = "ready" => \A k \in DOMAIN ki_p : KI_Clamped(ki_knots[k], ki_p[k]))
    /\ [][KI_Returns => \A k \in DOMAIN ki_p : KI_PlacedStrictlyInside(k)]_vars

\* the knot levels of dimension k after the insertion are the old ones with
\* the level x of the new knot put in at index span + 1
KI_LevelInserted(k, x) ==
    LET span == FindSpan(ki_knots[k], ki_p[k], ki_nctrl[k], ki_param[k])
    IN  /\ Knot(ki_levels'[k], span + 1) = x
        /\ \A i \in 0..(Len(ki_levels[k]) - 1) :
              Knot(ki_levels'[k], IF i <= span THEN i ELSE i + 1) = Knot(ki_levels[k], i)

KI_InitialLevelsZero ==
    (ki_pc = "ready" /\ ki_nins = 0) =>
        \A k \in DOMAIN ki_p : \A i \in DOMAIN ki_levels[k] : ki_levels[k][i] = 0

C20_CurveInsertionsDisjoint ==
    \A a, b \in ki_wrote : a[2] = b[2] => a[1] = b[1]

\* ------------------------------------------------ knot initialisation: runs
InitUniformKnots ==
    UK_Init /\ FS_Idle /\ AE_Idle /\ EN_Idle /\ DC_Idle /\ RT_Idle /\ KI_Idle /\ WS_Idle /\ EC_Idle /\ NK_Idle /\ TF_Idle /\ FV_Idle /\ WD_Idle /\ CI_Idle

SpecUniformKnots == InitUniformKnots /\ [][UK_Next]_vars

\* the knots of dimension k (0-based indices) that knot initialisation gave a
\* param index
UK_Assigned(k) == { i \in 0..(Len(uk_idxs[k]) - 1) : Knot(uk_idxs[k], i) # UK_None }

InitWeightSolve ==
    WS_Init /\ FS_Idle /\ AE_Idle /\ EN_Idle /\ DC_Idle /\ RT_Idle /\ KI_Idle /\ UK_Idle /\ EC_Idle /\ NK_Idle /\ TF_Idle /\ FV_Idle /\ WD_Idle /\ CI_Idle

SpecWeightSolve == InitWeightSolve /\ [][WS_Next]_vars

\* C22: the weight solver is invoked only when the caller's weighted flag is true
\* and the dimension is the last one (k = dom_dim - 1), for fixed and for adaptive
\* encoding; with the caller's flag false the output weights are all 1
C22_WeightsOnlyWhenAsked ==
    /\ \A c \in ws_invoked : ws_caller /\ c[1] = ws_d - 1
    /\ ~ws_caller => \A j \in DOMAIN ws_out : ws_out[j] = "ones"

InitErrorCurve ==
    EC_Init /\ FS_Idle /\ AE_Idle /\ EN_Idle /\ DC_Idle /\ RT_Idle /\ KI_Idle /\ UK_Idle /\ WS_Idle /\ NK_Idle /\ TF_Idle /\ FV_Idle /\ WD_Idle /\ CI_Idle

SpecErrorCurve == InitErrorCurve /\ [][EC_Next]_vars

\* the last span of the knot vector: it also contains the parameter 1
EC_LastSpan(knots, p) == Len(knots) - p - 2

\* the knot span that contains the parameter u
EC_SpanOf(knots, p, u) ==
    CHOOSE s \in p..EC_LastSpan(knots, p) :
        /\ Knot(knots, s) <= u
        /\ u < Knot(knots, s + 1) \/ s = EC_LastSpan(knots, p)

\* some input parameter lies in [knots[s], mid)
EC_LeftHalfPopulated(s) ==
    \E j \in 1..Len(ec_params) :
        Knot(ec_knots, s) <= ec_params[j] /\ 2 * ec_params[j] < EC_Mid2(ec_knots, s)

\* some input parameter lies in [mid, knots[s + 1]), or is 1 for the last span
EC_RightHalfPopulated(s) ==
    \E j \in 1..Len(ec_params) :
        /\ EC_Mid2(ec_knots, s) <= 2 * ec_params[j]
        /\ \/ ec_params[j] < Knot(ec_knots, s + 1)
           \/ s = EC_LastSpan(ec_knots, ec_p) /\ ec_params[j] = Knot(ec_knots, s + 1)

\* every index at which the scans read a parameter is in [0, ndom_pts[k] - 1]
EC_ExaminedInRange == ec_examined \subseteq 0..(Len(ec_params) - 1)

\* C23: the span of an input point whose error exceeds the limit is marked if and
\* only if each half of the span (the last span also containing the parameter 1)
\* contains an input parameter, and the scans read parameters only at indices in
\* [0, ndom_pts[k] - 1]
C23_MarkedIffBothHalves ==
    /\ \A i \in 0..(ec_i - 1) :
        ec_err[i + 1] =>
            LET s == EC_SpanOf(ec_knots, ec_p, ec_params[i + 1])
            IN  s \in ec_err_spans <=> EC_LeftHalfPopulated(s) /\ EC_RightHalfPopulated(s)
    /\ EC_ExaminedInRange

InitNewKnots ==
    NK_Init /\ FS_Idle /\ AE_Idle /\ EN_Idle /\ DC_Idle /\ RT_Idle /\ KI_Idle /\ UK_Idle /\ WS_Idle /\ EC_Idle /\ TF_Idle /\ FV_Idle /\ WD_Idle /\ CI_Idle

SpecNewKnots == InitNewKnots /\ [][NK_Next]_vars

\* the inserted knots of dimension j (0-based) that fall inside the tensor t
NK_InsertedIn(t, j) ==
    { nk_ins[j + 1][k] : k \in { k \in DOMAIN nk_ins[j + 1] :
        /\ nk_ins[j + 1][k] - 1 >= t.knot_mins[j + 1]
        /\ nk_ins[j + 1][k] <= t.knot_maxs[j + 1] } }

\* C24: a tensor is appended for an existing tensor only when an inserted knot falls
\* inside that tensor, and its knot_mins[j] and knot_maxs[j] are the smallest and the
\* largest inserted-knot index of dimension j inside the parent, less and plus
\* p[j] - 1, within [0, |all_knots[j]| - 1]
C24_AppendedTensorRange ==
    \A a \in DOMAIN nk_appended :
        LET t == nk_tensors[nk_appended[a].parent + 1]
            mins == nk_appended[a].knot_mins
            maxs == nk_appended[a].knot_maxs
        IN  /\ \E j \in 0..(Len(nk_p) - 1) : NK_InsertedIn(t, j) # {}
            /\ \A j \in 0..(Len(nk_p) - 1) :
                /\ NK_InsertedIn(t, j) # {} =>
                    /\ mins[j + 1] = SetMin(NK_InsertedIn(t, j)) - (nk_p[j + 1] - 1)
                    /\ maxs[j + 1] = SetMax(NK_InsertedIn(t, j)) + (nk_p[j + 1] - 1)
                /\ 0 <= mins[j + 1] /\ maxs[j + 1] <= nk_nknots[j + 1] - 1

\* C28: the test of an inserted knot of dimension j subscripts knot_mins and knot_maxs
\* of the tensor with j, so every subscript is in [0, dom_dim), and min_idx and
\* max_idx are never read before they are assigned
C28_SubscriptIsDimension ==
    /\ \A c \in nk_subs : c[2] = c[1] /\ c[2] \in 0..(Len(nk_p) - 1)
    /\ ~nk_unassigned

InitTmeshFindSpan ==
    TF_Init /\ FS_Idle /\ AE_Idle /\ EN_Idle /\ DC_Idle /\ RT_Idle /\ KI_Idle /\ UK_Idle /\ WS_Idle /\ EC_Idle /\ NK_Idle /\ FV_Idle /\ WD_Idle /\ CI_Idle

SpecTmeshFindSpan == InitTmeshFindSpan /\ [][TF_Next]_vars

\* the span of u: u in [knots[i], knots[i + 1]), the last span for u at the end
TF_SpanOf(knots, p, u) == EC_SpanOf(knots, p, u)

\* the indices at or left of the span whose knot has the level of the tensor
TF_SameLevel(levels, level, span) == { i \in 0..span : Knot(levels, i) = level }

\* C25: for u inside the knot range of the tensor, FindSpan returns the largest index
\* not greater than the span of u whose knot has the level of the tensor, and -1
\* only when no index at or left of the span has that level
C25_LargestIndexOfLevel ==
    (tf_pc = "done" /\ TF_InRange(tf_knots, tf_tensor, tf_u)) =>
        LET c == TF_SameLevel(tf_levels, tf_tensor.level, TF_SpanOf(tf_knots, tf_p, tf_u))
        IN  IF c = {} THEN tf_ret = 0 - 1 ELSE tf_ret = SetMax(c)

InitFastDecode ==
    FV_Init /\ FS_Idle /\ AE_Idle /\ EN_Idle /\ DC_Idle /\ RT_Idle /\ KI_Idle /\ UK_Idle /\ WS_Idle /\ EC_Idle /\ NK_Idle /\ TF_Idle /\ WD_Idle /\ CI_Idle

SpecFastDecode == InitFastDecode /\ [][FV_Next]_vars

\* VolPt of the model of the fast decoder: one tensor, unit weights
FV_VolPt ==
    KI_VolPt([k \in DOMAIN fv_p |-> UniformKnots(fv_p[k], fv_nctrl[k])], fv_p, fv_nctrl,
             [r \in DOMAIN fv_ctrl |-> FInt(fv_ctrl[r])],
             [r \in DOMAIN fv_ctrl |-> FInt(1)], fv_param)

\* C26: for a model of one tensor with unit weights and scalar control points
\* FastVolPt returns the value of VolPt at every parameter of the knot range, for
\* every dom_dim and every degree vector p
C26_FastVolPtEqualsVolPt ==
    (fv_op = "FastVolPt" /\ fv_pc \in {"done", "thrown"}) =>
        fv_pc = "done" /\ fv_out = FV_VolPt

\* C27: every index at which FastVolPt and FastGrad read or write di.t[k] and
\* di.td[d][k] is smaller than the size the FastDecodeInfo constructor gives the
\* vector, for every dom_dim and every p
C27_ScratchIndicesInRange ==
    \A c \in fv_acc : c[3] < FastDecodeInfo_tsize(fv_p, c[2])

InitWeightedDecode ==
    WD_Init /\ FS_Idle /\ AE_Idle /\ EN_Idle /\ DC_Idle /\ RT_Idle /\ KI_Idle /\ UK_Idle /\ WS_Idle /\ EC_Idle /\ NK_Idle /\ TF_Idle /\ FV_Idle /\ CI_Idle

SpecWeightedDecode == InitWeightedDecode /\ [][WD_Next]_vars

\* C29: with only the range coordinate weighted, every decoded coordinate other than
\* the last is independent of the weights, in every decoder: two calls that differ
\* only in the weights agree on it
C29_GeometryIndependentOfWeights ==
    wd_pc = "done" => wd_out[1][1] = wd_out[2][1]

InitCurveKnotIns ==
    CI_Init /\ FS_Idle /\ AE_Idle /\ EN_Idle /\ DC_Idle /\ RT_Idle /\ KI_Idle /\ UK_Idle /\ WS_Idle /\ EC_Idle /\ NK_Idle /\ TF_Idle /\ FV_Idle /\ WD_Idle

SpecCurveKnotIns == InitCurveKnotIns /\ [][CI_Next]_vars

\* a * hi + (1 - a) * lo for fractions
CI_Combine(a, lo, hi) == FAdd(FMul(a, hi), FMul(FAdd(FInt(1), FMul(FInt(0 - 1), a)), lo))

\* the coefficient alpha of the new point L + j: (u - knots[L + j]) / (knots[j + i + 1] -
\* knots[L + j]) with the knots before the insertion and span i
CI_AlphaOf(j) ==
    LET L == ci_span - ci_p + 1
    IN  Frac(ci_u - At(ci_knots, L + j), At(ci_knots, j + ci_span + 1) - At(ci_knots, L + j))

=============================================================================
